---------------------------- MODULE Spec2Model ----------------------------
(***************************************************************************)
(* Health Tracker backup/restore subsystem (src/core/core-scripts.js):     *)
(* the iOS storage manager, the CSV codec and the import/export            *)
(* orchestrator, as state machines over localStorage.                      *)
(*                                                                         *)
(* Text is a sequence of characters.  A character is a one-character       *)
(* string; a few multi-character strings ("water_history", "goal", ...)    *)
(* abbreviate runs of letters that the code never inspects one by one.     *)
(***************************************************************************)
EXTENDS Integers, Sequences, FiniteSets, TLC

VARIABLES
  cIn,      \* codec: the JS value handed to escapeCSV
  cOut,     \* codec: the escaped cell text
  cFields,  \* codec: the fields parseCSVRow returns for cOut
  cPc,      \* codec: "input" -> "escaped" -> "decoded"
  storage,  \* localStorage: a function from the keys present to their values
  isIOS,    \* the device tier, isIOSDevice(): TRUE on the constrained tier
  capacity, \* the platform's quota: setItem throws QuotaExceededError beyond it
  smCall,   \* storage manager: the last call, its arguments, result and log
  exported, \* exportData: the outcome of the last export and its file text
  roundTrip, \* parseCSVData: the outcome of parsing the exported text
  reads,    \* importData: the files whose asynchronous read is in flight
  app,      \* the last import/export event handler that ran, and what it did
  imports,  \* the number of files chosen for import so far
  sw        \* the service worker: its phase, the caches, the request in hand

codecVars == <<cIn, cOut, cFields, cPc>>
storeVars == <<storage, isIOS, capacity>>
appVars == <<exported, roundTrip, reads, app, imports, sw>>
vars == <<cIn, cOut, cFields, cPc, storage, isIOS, capacity, smCall,
          exported, roundTrip, reads, app, imports, sw>>

(***************************************************************************)
(* Bounds of the model.                                                    *)
(***************************************************************************)
MaxStrLen == 4

\* The files chosen for import in one behaviour.
MaxImports == 2

(***************************************************************************)
(* Characters and JS values.                                               *)
(***************************************************************************)
Quote == "\""
Comma == ","
LF == "\n"
CR == "\r"

Digits == <<"0", "1", "2", "3", "4", "5", "6", "7", "8", "9">>

JsNull == [t |-> "null"]
JsUndefined == [t |-> "undefined"]
JsStr(s) == [t |-> "string", s |-> s]
JsNum(n) == [t |-> "number", n |-> n]
JsBool(b) == [t |-> "boolean", b |-> b]

\* Decimal digits of a natural number (Number.prototype.toString).
RECURSIVE NatToText(_)
NatToText(n) ==
  IF n < 10 THEN <<Digits[n + 1]>>
  ELSE NatToText(n \div 10) \o <<Digits[(n % 10) + 1]>>

\* String(n) of an integer.
IntToText(n) == IF n < 0 THEN <<"-">> \o NatToText(0 - n) ELSE NatToText(n)

\* texts[lo..hi] joined by sep (Array.prototype.join).
RECURSIVE JoinIn(_, _, _, _)
JoinIn(texts, sep, lo, hi) ==
  IF lo > hi THEN <<>>
  ELSE IF lo = hi THEN texts[lo]
  ELSE LET mid == (lo + hi) \div 2 IN
       JoinIn(texts, sep, lo, mid) \o sep \o JoinIn(texts, sep, mid + 1, hi)

Join(texts, sep) == JoinIn(texts, sep, 1, Len(texts))

\* String(value).
RECURSIVE JsString(_)
JsString(v) ==
  CASE v.t = "string" -> v.s
    [] v.t = "number" -> IntToText(v.n)
    [] v.t = "nan" -> <<"N", "a", "N">>
    [] v.t = "boolean" -> IF v.b THEN <<"true">> ELSE <<"false">>
    [] v.t = "null" -> <<"null">>
    [] v.t = "undefined" -> <<"undefined">>
    [] v.t = "array" ->
         Join([i \in 1..Len(v.a) |->
                 IF v.a[i].t \in {"null", "undefined"} THEN <<>>
                 ELSE JsString(v.a[i])], <<Comma>>)
    [] OTHER -> <<"[object Object]">>

\* stringValue.includes(c)
Includes(s, c) == \E i \in 1..Len(s) : s[i] = c

\* stringValue.replace(/"/g, '""')
RECURSIVE ReplaceQuotesIn(_, _, _)
ReplaceQuotesIn(s, lo, hi) ==
  IF lo > hi THEN <<>>
  ELSE IF lo = hi THEN (IF s[lo] = Quote THEN <<Quote, Quote>> ELSE <<s[lo]>>)
  ELSE LET mid == (lo + hi) \div 2 IN
       ReplaceQuotesIn(s, lo, mid) \o ReplaceQuotesIn(s, mid + 1, hi)

\* A replace that doubles nothing.
ReplaceQuotesNever(s) == s

ReplaceQuotes(s) == ReplaceQuotesIn(s, 1, Len(s))

\* An escaping that overlooks line breaks.
escapeCSVNoNewline(value) ==
  IF value.t = "null" \/ value.t = "undefined" THEN <<>>
  ELSE LET stringValue == JsString(value) IN
       IF Includes(stringValue, Comma) \/ Includes(stringValue, Quote)
       THEN <<Quote>> \o ReplaceQuotes(stringValue) \o <<Quote>>
       ELSE stringValue

\* escapeCSV, the serializer's field escaping.
escapeCSV(value) ==
  IF value.t = "null" \/ value.t = "undefined" THEN <<>>
  ELSE LET stringValue == JsString(value) IN
       IF Includes(stringValue, Comma) \/ Includes(stringValue, Quote)
          \/ Includes(stringValue, LF)
       THEN <<Quote>> \o ReplaceQuotes(stringValue) \o <<Quote>>
       ELSE stringValue

\* One round of the while loop of parseCSVRow at the (1-based) position i.
\* st is [insideQuotes, currentValue, result, skip]; skip says that i is the
\* second quote of a pair that `i += 2` has already passed over.
ParseRowStep(row, st, i) ==
  IF st.skip THEN [st EXCEPT !.skip = FALSE]
  ELSE IF row[i] = Quote
       THEN IF i + 1 <= Len(row) /\ row[i + 1] = Quote
            THEN [st EXCEPT !.currentValue = Append(@, Quote), !.skip = TRUE]
            ELSE [st EXCEPT !.insideQuotes = ~@]
       ELSE IF row[i] = Comma /\ ~st.insideQuotes
            THEN [st EXCEPT !.result = Append(@, st.currentValue),
                            !.currentValue = <<>>]
            ELSE [st EXCEPT !.currentValue = Append(@, row[i])]

\* The rounds for the positions lo..hi, in order.
RECURSIVE ParseRowLoop(_, _, _, _)
ParseRowLoop(row, st, lo, hi) ==
  IF lo > hi THEN st
  ELSE IF lo = hi THEN ParseRowStep(row, st, lo)
  ELSE LET mid == (lo + hi) \div 2
           half == ParseRowLoop(row, st, lo, mid)
       IN IF half.skip \in BOOLEAN   \* settles the first half before the second
          THEN ParseRowLoop(row, half, mid + 1, hi)
          ELSE half

\* parseCSVRow, the field tokenizer.
parseCSVRow(row) ==
  LET st == ParseRowLoop(row,
                         [insideQuotes |-> FALSE, currentValue |-> <<>>,
                          result |-> <<>>, skip |-> FALSE],
                         1, Len(row))
  IN Append(st.result, st.currentValue)

(***************************************************************************)
(* JSON values.  A JSON text is modelled by the tree it denotes:           *)
(* JSON.stringify normalises a JS value to that tree (NaN becomes null, an *)
(* undefined member is dropped) and JSON.parse reads it back.  An object   *)
(* keeps its members in insertion order.                                   *)
(***************************************************************************)
JsObj(members) == [t |-> "object", m |-> members]
JsArr(items) == [t |-> "array", a |-> items]
Member(k, v) == [k |-> k, v |-> v]

\* A member whose key is the one word name.
Prop(name, v) == Member(<<name>>, v)

\* obj[name] (undefined when there is no such member or obj is no object).
\* A member key is a text; a property name is the one-word text <<name>>.
FindMember(members, name) ==
  LET hits == {i \in 1..Len(members) : members[i].k = name} IN
  IF hits = {} THEN JsUndefined
  ELSE members[CHOOSE i \in hits : \A j \in hits : i <= j].v

GetProp(obj, name) ==
  IF obj.t = "object" THEN FindMember(obj.m, <<name>>) ELSE JsUndefined

\* Object.keys(obj) of an object, in member order.
ObjectKeys(obj) == [i \in 1..Len(obj.m) |-> obj.m[i].k]

\* if (value): JS truthiness.
Truthy(v) ==
  CASE v.t = "undefined" -> FALSE
    [] v.t = "null" -> FALSE
    [] v.t = "nan" -> FALSE
    [] v.t = "number" -> v.n # 0
    [] v.t = "boolean" -> v.b
    [] v.t = "string" -> v.s # <<>>
    [] OTHER -> TRUE

\* Length of one character.  Bulk abbreviates a long run of letters: a text
\* below the tier's file limit (2 MiB or 5 MiB) and above 90% of it.
Bulk == "<bulk>"

\* The characters of s[lo..hi], summed by halving.
RECURSIVE TextLenIn(_, _, _)
TextLenIn(s, lo, hi) ==
  IF lo > hi THEN 0
  ELSE IF lo = hi THEN (IF s[lo] = Bulk THEN (IF isIOS THEN 1900000 ELSE 4800000)
             ELSE Len(s[lo]))
  ELSE LET mid == (lo + hi) \div 2 IN
       TextLenIn(s, lo, mid) + TextLenIn(s, mid + 1, hi)

\* s.length
TextLen(s) == TextLenIn(s, 1, Len(s))

\* Length of the JSON string literal of text s: quotes, backslashes and line
\* breaks take two characters each.
RECURSIVE EscapedLenIn(_, _, _)
EscapedLenIn(s, lo, hi) ==
  IF lo > hi THEN 0
  ELSE IF lo = hi
       THEN IF s[lo] \in {Quote, "\\", LF, CR} THEN 2 ELSE (IF s[lo] = Bulk THEN (IF isIOS THEN 1900000 ELSE 4800000)
             ELSE Len(s[lo]))
  ELSE LET mid == (lo + hi) \div 2 IN
       EscapedLenIn(s, lo, mid) + EscapedLenIn(s, mid + 1, hi)

\* JSON.stringify: the tree of the text produced for a JS value.
RECURSIVE Normalize(_)
Normalize(v) ==
  CASE v.t = "object" ->
         LET Defined(mem) == mem.v.t # "undefined"
             kept == SelectSeq(v.m, Defined)
         IN JsObj([i \in 1..Len(kept) |-> Member(kept[i].k, Normalize(kept[i].v))])
    [] v.t = "array" ->
         JsArr([i \in 1..Len(v.a) |->
                  IF v.a[i].t = "undefined" THEN JsNull ELSE Normalize(v.a[i])])
    [] v.t = "nan" -> JsNull
    [] OTHER -> v

\* The number of characters of the JSON text of a normalised tree.
RECURSIVE JsonLen(_)
RECURSIVE MembersLenIn(_, _, _)
RECURSIVE ItemsLenIn(_, _, _)
\* The members ms[lo..hi]: each is its key, a colon and its value.
MembersLenIn(ms, lo, hi) ==
  IF lo > hi THEN 0
  ELSE IF lo = hi THEN 2 + EscapedLenIn(ms[lo].k, 1, Len(ms[lo].k)) + 1 + JsonLen(ms[lo].v)
  ELSE LET mid == (lo + hi) \div 2 IN
       MembersLenIn(ms, lo, mid) + MembersLenIn(ms, mid + 1, hi)

ItemsLenIn(items, lo, hi) ==
  IF lo > hi THEN 0
  ELSE IF lo = hi THEN JsonLen(items[lo])
  ELSE LET mid == (lo + hi) \div 2 IN
       ItemsLenIn(items, lo, mid) + ItemsLenIn(items, mid + 1, hi)

\* The brackets, the members or items, and the commas between them.
JsonLen(v) ==
  CASE v.t = "object" ->
         2 + MembersLenIn(v.m, 1, Len(v.m))
           + (IF Len(v.m) > 1 THEN Len(v.m) - 1 ELSE 0)
    [] v.t = "array" ->
         2 + ItemsLenIn(v.a, 1, Len(v.a))
           + (IF Len(v.a) > 1 THEN Len(v.a) - 1 ELSE 0)
    [] v.t = "string" -> 2 + EscapedLenIn(v.s, 1, Len(v.s))
    [] v.t = "number" -> Len(IntToText(v.n))
    [] v.t = "boolean" -> IF v.b THEN 4 ELSE 5
    [] OTHER -> 4

(***************************************************************************)
(* localStorage.  A stored value is a text: plain characters (Txt), a run  *)
(* of n letters (Run), or the JSON text of a tree (Json), which is kept    *)
(* with its number of characters.                                          *)
(***************************************************************************)
Txt(s) == [k |-> "text", s |-> s]
Run(n) == [k |-> "run", n |-> n]
Json(v) == [k |-> "json", v |-> v, len |-> JsonLen(v)]
NoItem == [k |-> "null"]

\* value.length
ValueLen(value) ==
  CASE value.k = "text" -> TextLen(value.s)
    [] value.k = "run" -> value.n
    [] value.k = "json" -> value.len

\* JSON.stringify(x) as a stored text.
JsonStringify(x) == Json(Normalize(x))

\* The number a run of digits denotes.
RECURSIVE TextToNat(_)
TextToNat(s) ==
  IF s = <<>> THEN 0
  ELSE 10 * TextToNat(SubSeq(s, 1, Len(s) - 1))
       + (CHOOSE i \in 1..10 : Digits[i] = s[Len(s)]) - 1

\* JSON.parse(text): [ok |-> FALSE] stands for the SyntaxError thrown.  A
\* number is read when the text is one without sign, fraction or exponent.
JsonParse(value) ==
  CASE value.k = "json" -> [ok |-> TRUE, v |-> value.v]
    [] /\ value.k = "text"
       /\ value.s # <<>>
       /\ \A i \in 1..Len(value.s) : value.s[i] \in {Digits[j] : j \in 1..10}
       /\ Len(value.s) = 1 \/ value.s[1] # "0" ->
         [ok |-> TRUE, v |-> JsNum(TextToNat(value.s))]
    [] value.k = "text" /\ value.s \in {<<"true">>, <<"false">>} ->
         [ok |-> TRUE, v |-> JsBool(value.s = <<"true">>)]
    [] value.k = "text" /\ value.s = <<"null">> -> [ok |-> TRUE, v |-> JsNull]
    [] OTHER -> [ok |-> FALSE]

\* The characters of a JSON string literal.
RECURSIVE JsonEscapeIn(_, _, _)
JsonEscapeIn(s, lo, hi) ==
  IF lo > hi THEN <<>>
  ELSE IF lo = hi
       THEN CASE s[lo] = Quote -> <<"\\", Quote>>
              [] s[lo] = "\\" -> <<"\\", "\\">>
              [] s[lo] = LF -> <<"\\", "n">>
              [] s[lo] = CR -> <<"\\", "r">>
              [] OTHER -> <<s[lo]>>
       ELSE LET mid == (lo + hi) \div 2 IN
            JsonEscapeIn(s, lo, mid) \o JsonEscapeIn(s, mid + 1, hi)

\* The characters of the JSON text of a normalised tree.
RECURSIVE JsonText(_)
JsonText(v) ==
  CASE v.t = "object" ->
         <<"{">> \o Join([i \in 1..Len(v.m) |->
                            <<Quote>>
                              \o JsonEscapeIn(v.m[i].k, 1, Len(v.m[i].k))
                              \o <<Quote>> \o <<":">> \o JsonText(v.m[i].v)],
                         <<Comma>>) \o <<"}">>
    [] v.t = "array" ->
         <<"[">> \o Join([i \in 1..Len(v.a) |-> JsonText(v.a[i])], <<Comma>>)
                \o <<"]">>
    [] v.t = "string" -> <<Quote>> \o JsonEscapeIn(v.s, 1, Len(v.s)) \o <<Quote>>
    [] v.t = "number" -> IntToText(v.n)
    [] v.t = "boolean" -> IF v.b THEN <<"true">> ELSE <<"false">>
    [] OTHER -> <<"null">>

\* The characters of a stored value.
ItemText(value) ==
  CASE value.k = "text" -> value.s
    [] value.k = "run" -> [i \in 1..value.n |-> "a"]
    [] value.k = "json" -> JsonText(value.v)

\* What getItem hands to the caller: a string, or null.
ItemValue(value) == IF value.k = "null" THEN JsNull ELSE JsStr(ItemText(value))

\* localStorage.getItem(key): null when the key is absent.
GetItem(store, key) == IF key \in DOMAIN store THEN store[key] ELSE NoItem

\* A string is falsy exactly when it is empty; null is falsy.
TruthyText(value) == value.k # "null" /\ ValueLen(value) > 0

\* store with key set to value.
Put(store, key, value) ==
  [x \in DOMAIN store \cup {key} |-> IF x = key THEN value ELSE store[x]]

RECURSIVE SumOver(_, _, _)
SumOver(store, keys, includeEmpty) ==
  IF keys = {} THEN 0
  ELSE LET k == CHOOSE x \in keys : TRUE IN
       (IF includeEmpty \/ (Len(k) > 0 /\ ValueLen(store[k]) > 0)
        THEN Len(k) + ValueLen(store[k]) ELSE 0)
       + SumOver(store, keys \ {k}, includeEmpty)

\* What the platform counts against its quota: every key and value.
PlatformSize(store) == SumOver(store, DOMAIN store, TRUE)

\* The platform denies the page its storage: every access to localStorage
\* throws a SecurityError.  The state holds it as a quota below zero.
AccessDenied == capacity < 0

\* localStorage.setItem(key, value): stores it, or throws - a
\* QuotaExceededError when the result would not fit the platform's quota.
SetItem(store, key, value) ==
  LET next == Put(store, key, value) IN
  IF AccessDenied \/ PlatformSize(next) > capacity
  THEN [ok |-> FALSE, store |-> store]
  ELSE [ok |-> TRUE, store |-> next]

(***************************************************************************)
(* iosStorageManager.                                                      *)
(***************************************************************************)
KiB == 1024

\* const maxSize = this.isIOS() ? 2 * 1024 * 1024 : 5 * 1024 * 1024
MaxSize == IF isIOS THEN 2 * KiB * KiB ELSE 5 * KiB * KiB

\* const threshold = this.isIOS() ? 0.7 : 0.9, in tenths
ThresholdTenths == IF isIOS THEN 7 ELSE 9

\* const daysToKeep = this.isIOS() ? 30 : 90
DaysToKeep == IF isIOS THEN 30 ELSE 90

\* A probe without the catch: the throw of setItem reaches the caller.
isAvailableNoCatch(store) ==
  LET w == SetItem(store, "ios_storage_test", Txt(<<"ios_storage_test">>)) IN
  [store |-> IF w.ok
             THEN [key \in DOMAIN w.store \ {"ios_storage_test"} |->
                     w.store[key]]
             ELSE store,
   ret |-> w.ok, threw |-> ~w.ok, log |-> <<>>]

\* isAvailable: [store, ret, threw, log].  The probe key is written and
\* removed; a throw of either is caught, warned about (with the private
\* mode warning on iOS) and answered with false.
isAvailable(store) ==
  LET w == SetItem(store, "ios_storage_test", Txt(<<"ios_storage_test">>)) IN
  IF w.ok
  THEN [store |-> [key \in DOMAIN w.store \ {"ios_storage_test"} |->
                     w.store[key]],
        ret |-> TRUE, threw |-> FALSE, log |-> <<>>]
  ELSE [store |-> store, ret |-> FALSE, threw |-> FALSE,
        log |-> IF isIOS THEN <<"warn", "showPrivateModeWarning">>
                ELSE <<"warn">>]

\* getUsage: keys with an empty value are skipped by `if (key && value)`; a
\* throw of localStorage is caught with total as it stands.
getUsage(store) ==
  IF AccessDenied THEN 0 ELSE SumOver(store, DOMAIN store, FALSE)

getRemainingSpace(store) == MaxSize - getUsage(store)

\* A comparison that also fires at the boundary.
isNearQuotaInclusive(store) == getUsage(store) * 10 >= MaxSize * ThresholdTenths

\* isNearQuota: currentUsage > maxSize * threshold.  The product is the double
\* 1468006.4 (rounded down by less than 1e-9) or exactly 4718592, so the
\* comparison with the integer usage is the one of the tenths.
isNearQuota(store) == getUsage(store) * 10 > MaxSize * ThresholdTenths

\* UTF-16 code units of the characters that occur in mapping keys.
CharCode(c) ==
  CASE c = "-" -> 45
    [] c = "0" -> 48 [] c = "1" -> 49 [] c = "2" -> 50 [] c = "3" -> 51
    [] c = "4" -> 52 [] c = "5" -> 53 [] c = "6" -> 54 [] c = "7" -> 55
    [] c = "8" -> 56 [] c = "9" -> 57
    [] c = "_" -> 95
    [] c = "a" -> 97
    [] OTHER -> 120

\* a < b as strings (code unit order), the order of Array.prototype.sort().
RECURSIVE LexLess(_, _)
LexLess(a, b) ==
  IF b = <<>> THEN FALSE
  ELSE IF a = <<>> THEN TRUE
  ELSE IF Head(a) = Head(b) THEN LexLess(Tail(a), Tail(b))
  ELSE CharCode(Head(a)) < CharCode(Head(b))

\* The number of keys of the sorted ys[lo..hi] that precede x, plus lo - 1.
RECURSIVE CountLess(_, _, _, _)
CountLess(ys, x, lo, hi) ==
  IF lo > hi THEN lo - 1
  ELSE LET mid == (lo + hi) \div 2 IN
       IF LexLess(ys[mid], x) THEN CountLess(ys, x, mid + 1, hi)
       ELSE CountLess(ys, x, lo, mid - 1)

\* The sorted merge of two sorted sequences, split at the middle of xs.
RECURSIVE Merge(_, _)
Merge(xs, ys) ==
  IF xs = <<>> THEN ys
  ELSE IF ys = <<>> THEN xs
  ELSE LET h == (Len(xs) + 1) \div 2
           c == CountLess(ys, xs[h], 1, Len(ys))
       IN Merge(SubSeq(xs, 1, h - 1), SubSeq(ys, 1, c)) \o <<xs[h]>>
          \o Merge(SubSeq(xs, h + 1, Len(xs)), SubSeq(ys, c + 1, Len(ys)))

\* keys.sort()
RECURSIVE SortKeys(_)
SortKeys(keys) ==
  IF Len(keys) <= 1 THEN keys
  ELSE LET h == Len(keys) \div 2 IN
       Merge(SortKeys(SubSeq(keys, 1, h)), SortKeys(SubSeq(keys, h + 1, Len(keys))))

\* A slice that stops one date early.
DatesToRemoveLate(obj) ==
  IF Len(obj.m) > DaysToKeep
  THEN LET dates == SortKeys(ObjectKeys(obj)) IN
       {dates[i] : i \in 1..(Len(dates) - DaysToKeep - 1)}
  ELSE {}

\* A slice taken from the end of the sorted keys.
DatesToRemoveNewest(obj) ==
  IF Len(obj.m) > DaysToKeep
  THEN LET dates == SortKeys(ObjectKeys(obj)) IN
       {dates[i] : i \in (DaysToKeep + 1)..Len(dates)}
  ELSE {}

\* dates.slice(0, dates.length - daysToKeep) of the sorted keys, as a set.
DatesToRemove(obj) ==
  IF Len(obj.m) > DaysToKeep
  THEN LET dates == SortKeys(ObjectKeys(obj)) IN
       {dates[i] : i \in 1..(Len(dates) - DaysToKeep)}
  ELSE {}

\* delete obj[date] for every date of the set: the other members keep their order.
DeleteKeys(obj, dates) ==
  LET Keep(mem) == mem.k \notin dates IN JsObj(SelectSeq(obj.m, Keep))

\* The trimming of one habit by history.forEach(habit => ...).
TrimHabit(habit) ==
  LET h == GetProp(habit, "history") IN
  IF Truthy(h) /\ h.t = "object" /\ Len(h.m) > DaysToKeep
  THEN JsObj([i \in 1..Len(habit.m) |->
                IF habit.m[i].k = <<"history">>
                THEN Member(<<"history">>, DeleteKeys(h, DatesToRemove(h)))
                ELSE habit.m[i]])
  ELSE habit

\* One round of historyKeys.forEach(key => ...): st is [store, cleanedUp,
\* written], written the keys localStorage.setItem was called with so far.
CleanupKey(st, key) ==
  LET historyData == GetItem(st.store, key) IN
  IF AccessDenied THEN st   \* getItem throws: caught, next key
  ELSE IF ~TruthyText(historyData) THEN st
  ELSE LET parsed == JsonParse(historyData) IN
       IF ~parsed.ok THEN st   \* caught: console.error, next key
       ELSE LET history == parsed.v IN
            IF key = "habits_data" /\ history.t = "array"
            THEN LET trimmed == JsArr([i \in 1..Len(history.a) |->
                                         TrimHabit(history.a[i])])
                     cleaned == st.cleanedUp
                                \/ \E i \in 1..Len(history.a) :
                                     LET h == GetProp(history.a[i], "history")
                                     IN Truthy(h) /\ h.t = "object"
                                        /\ Len(h.m) > DaysToKeep
                 IN IF cleaned
                    THEN [store |-> SetItem(st.store, key,
                                            JsonStringify(trimmed)).store,
                          cleanedUp |-> TRUE,
                          written |-> Append(st.written, key)]
                    ELSE st
            ELSE IF history.t = "object"
                 THEN IF Len(history.m) > DaysToKeep
                      THEN LET w == SetItem(st.store, key,
                                      JsonStringify(DeleteKeys(history,
                                                      DatesToRemove(history))))
                           IN IF w.ok
                              THEN [store |-> w.store, cleanedUp |-> TRUE,
                                    written |-> Append(st.written, key)]
                              \* caught before cleanedUp = true
                              ELSE [st EXCEPT !.written = Append(@, key)]
                      ELSE st
                 ELSE st

HistoryKeys == <<"history_water", "history_protein", "workout_history", "habits_data">>

\* historyKeys.forEach from the i-th key on.
RECURSIVE CleanupFrom(_, _)
CleanupFrom(st, i) ==
  IF i > Len(HistoryKeys) THEN st
  ELSE CleanupFrom(CleanupKey(st, HistoryKeys[i]), i + 1)

\* A cleanup with the outer try only: a stored value that fails to parse
\* ends the call.
cleanupOldDataOuterCatch(store) ==
  IF \E i \in 1..Len(HistoryKeys) :
       /\ TruthyText(GetItem(store, HistoryKeys[i]))
       /\ ~JsonParse(GetItem(store, HistoryKeys[i])).ok
  THEN [store |-> store, ret |-> FALSE, written |-> <<>>]
  ELSE LET st == CleanupFrom([store |-> store, cleanedUp |-> FALSE,
                              written |-> <<>>], 1)
       IN [store |-> st.store, ret |-> st.cleanedUp, written |-> st.written]

\* cleanupOldData: [store, ret, written].
cleanupOldData(store) ==
  LET st == CleanupFrom([store |-> store, cleanedUp |-> FALSE,
                         written |-> <<>>], 1)
  IN [store |-> st.store, ret |-> st.cleanedUp, written |-> st.written]

\* A recovery that reports success whatever the retry did.
QuotaRecoveryOptimistic(store, key, value) ==
  LET c == cleanupOldData(store)
      w2 == SetItem(c.store, key, value)
  IN [store |-> w2.store, ret |-> TRUE,
      log |-> <<"setItem:quota", "cleanup:true",
                IF w2.ok THEN "setItem:ok" ELSE "setItem:quota",
                "toast:cleaned-up">>]

\* The catch branch of safeSetItem after cleanupOldData returned c: one
\* retry when the cleanup trimmed something.
RetryAfterCleanup(c, key, value) ==
  IF c.ret
  THEN LET w2 == SetItem(c.store, key, value) IN
       IF w2.ok
       THEN [store |-> w2.store, ret |-> TRUE,
             log |-> <<"setItem:quota", "cleanup:true", "setItem:ok",
                       "toast:cleaned-up">>]
       ELSE [store |-> c.store, ret |-> FALSE,
             log |-> <<"setItem:quota", "cleanup:true", "setItem:quota",
                       "handleStorageFull">>]
  ELSE [store |-> c.store, ret |-> FALSE,
        log |-> <<"setItem:quota", "cleanup:false", "handleStorageFull">>]

\* The catch branch of safeSetItem for a quota error.
QuotaRecovery(store, key, value) ==
  RetryAfterCleanup(cleanupOldData(store), key, value)

\* A safeSetItem that gives up at the first quota error.
safeSetItemNoRecovery(store, key, value, otherError) ==
  IF otherError
  THEN [store |-> store, ret |-> FALSE,
        log |-> <<"setItem:error", "toast:error-saving">>]
  ELSE LET w1 == SetItem(store, key, value) IN
       IF w1.ok
       THEN [store |-> w1.store, ret |-> TRUE, log |-> <<"setItem:ok">>]
       ELSE [store |-> store, ret |-> FALSE,
             log |-> <<"setItem:quota", "handleStorageFull">>]

\* safeSetItem(key, value): [store, ret, log].  otherError: the platform's
\* first setItem throws an error that is not a quota error.
safeSetItem(store, key, value, otherError) ==
  IF otherError \/ AccessDenied
  THEN [store |-> store, ret |-> FALSE,
        log |-> <<"setItem:error", "toast:error-saving">>]
  ELSE LET w1 == SetItem(store, key, value) IN
       IF w1.ok
       THEN [store |-> w1.store, ret |-> TRUE, log |-> <<"setItem:ok">>]
       ELSE QuotaRecovery(store, key, value)

(***************************************************************************)
(* convertDataToCSV: the serializer.                                       *)
(***************************************************************************)
Headers ==
  <<"data_type", "key", "value", "date", "amount", "timestamp", "type",
    "count", "name", "color", "completed", "order">>

\* new Array(headers.length).fill('')
BlankRow == [i \in 1..Len(Headers) |-> JsStr(<<>>)]

\* row.map(escapeCSV).join(',')
RowLine(row) == Join([i \in 1..Len(row) |-> escapeCSV(row[i])], <<Comma>>)

\* addRow(dataType, key, value): the line pushed.
addRow(dataType, key, value) ==
  RowLine([BlankRow EXCEPT ![1] = JsStr(<<dataType>>), ![2] = JsStr(<<key>>),
                           ![3] = value])

\* Object.entries(v) as [k, v] pairs; it throws for null.
ObjectEntries(v) ==
  CASE v.t = "object" -> v.m
    [] v.t = "array" -> [i \in 1..Len(v.a) |-> Member(IntToText(i - 1), v.a[i])]
    [] v.t = "string" -> [i \in 1..Len(v.s) |-> Member(IntToText(i - 1),
                                                       JsStr(<<v.s[i]>>))]
    [] OTHER -> <<>>

\* The concatenation of the sequences lists[lo..hi].
RECURSIVE FlattenIn(_, _, _)
FlattenIn(lists, lo, hi) ==
  IF lo > hi THEN <<>>
  ELSE IF lo = hi THEN lists[lo]
  ELSE LET mid == (lo + hi) \div 2 IN
       FlattenIn(lists, lo, mid) \o FlattenIn(lists, mid + 1, hi)

Flatten(lists) == FlattenIn(lists, 1, Len(lists))

\* Object.entries(history).forEach(([date, entries]) => entries.forEach(...)):
\* [ok, rows]; a TypeError is thrown for a history that is null, a bucket that
\* is no array, or an entry that is null.  The row of an entry is that of
\* workout_history, or of history_water / history_protein.
HistoryRows(dataType, history) ==
  LET buckets == ObjectEntries(history) IN
  IF \/ history.t = "null"
     \/ \E i \in 1..Len(buckets) : buckets[i].v.t # "array"
     \/ \E i \in 1..Len(buckets) :
          \E j \in 1..Len(buckets[i].v.a) : buckets[i].v.a[j].t = "null"
  THEN [ok |-> FALSE]
  ELSE [ok |-> TRUE,
        rows |-> Flatten([i \in 1..Len(buckets) |->
                   [j \in 1..Len(buckets[i].v.a) |->
                      RowLine(
                        IF dataType = "workout_history"
                        THEN [BlankRow EXCEPT
                                ![1] = JsStr(<<dataType>>),
                                ![2] = JsStr(buckets[i].k \o <<"_">>
                                               \o IntToText(j - 1)),
                                ![4] = JsStr(buckets[i].k),
                                ![6] = GetProp(buckets[i].v.a[j], "timestamp"),
                                ![7] = GetProp(buckets[i].v.a[j], "type"),
                                ![8] = GetProp(buckets[i].v.a[j], "count")]
                        ELSE [BlankRow EXCEPT
                                ![1] = JsStr(<<dataType>>),
                                ![2] = JsStr(buckets[i].k \o <<"_">>
                                               \o IntToText(j - 1)),
                                ![4] = JsStr(buckets[i].k),
                                ![5] = GetProp(buckets[i].v.a[j], "amount"),
                                ![6] = GetProp(buckets[i].v.a[j],
                                               "timestamp")])]])]

\* A habit whose history rows come before its own row.
HabitRowsHistoryFirst(habit, habitIndex) ==
  LET history == GetProp(habit, "history")
      dates == IF Truthy(history) THEN ObjectEntries(history) ELSE <<>>
  IN [i \in 1..Len(dates) |->
        RowLine([BlankRow EXCEPT
                   ![1] = JsStr(<<"habit_history">>),
                   ![2] = JsStr(IntToText(habitIndex) \o <<"_">> \o dates[i].k),
                   ![3] = dates[i].v,
                   ![4] = JsStr(dates[i].k)])]
     \o <<RowLine([BlankRow EXCEPT ![1] = JsStr(<<"habit">>),
                                   ![2] = JsStr(IntToText(habitIndex)),
                                   ![9] = GetProp(habit, "name"),
                                   ![10] = GetProp(habit, "color")])>>

\* The row of a habit followed by the rows of its history.
HabitRows(habit, habitIndex) ==
  LET history == GetProp(habit, "history")
      dates == IF Truthy(history) THEN ObjectEntries(history) ELSE <<>>
  IN <<RowLine([BlankRow EXCEPT ![1] = JsStr(<<"habit">>),
                                ![2] = JsStr(IntToText(habitIndex)),
                                ![9] = GetProp(habit, "name"),
                                ![10] = GetProp(habit, "color")])>>
     \o [i \in 1..Len(dates) |->
          RowLine([BlankRow EXCEPT
                     ![1] = JsStr(<<"habit_history">>),
                     ![2] = JsStr(IntToText(habitIndex) \o <<"_">> \o dates[i].k),
                     ![3] = dates[i].v,
                     ![4] = JsStr(dates[i].k)])]

\* habitsData.forEach(...): a TypeError for a value that is no array or a
\* habit that is null.
HabitsRows(habitsData) ==
  IF \/ habitsData.t # "array"
     \/ \E i \in 1..Len(habitsData.a) : habitsData.a[i].t = "null"
  THEN [ok |-> FALSE]
  ELSE [ok |-> TRUE,
        rows |-> Flatten([i \in 1..Len(habitsData.a) |->
                           HabitRows(habitsData.a[i], i - 1)])]

\* The rows a parsed value gives, or the error of its JSON.parse.  The rows
\* of workout_state throw a TypeError for a state that is null.
RowsOf(parsed, kind) ==
  IF ~parsed.ok THEN [ok |-> FALSE]
  ELSE CASE kind = "workout_state" ->
             LET states == ObjectEntries(parsed.v) IN
             IF \/ parsed.v.t = "null"
                \/ \E i \in 1..Len(states) : states[i].v.t = "null"
             THEN [ok |-> FALSE]
             ELSE [ok |-> TRUE,
                   rows |-> [i \in 1..Len(states) |->
                              RowLine([BlankRow EXCEPT
                                         ![1] = JsStr(<<"workout_state">>),
                                         ![2] = JsStr(states[i].k),
                                         ![7] = JsStr(states[i].k),
                                         ![11] = GetProp(states[i].v, "completed"),
                                         ![12] = GetProp(states[i].v, "order")])]]
         [] kind = "workout_count" ->
             LET counts == ObjectEntries(parsed.v) IN
             IF parsed.v.t = "null"
             THEN [ok |-> FALSE]
             ELSE [ok |-> TRUE,
                   rows |-> [i \in 1..Len(counts) |->
                              RowLine([BlankRow EXCEPT
                                         ![1] = JsStr(<<"workout_count">>),
                                         ![2] = JsStr(counts[i].k),
                                         ![7] = JsStr(counts[i].k),
                                         ![8] = counts[i].v])]]
         [] kind = "habit" -> HabitsRows(parsed.v)
         [] OTHER -> HistoryRows(kind, parsed.v)

\* The sections of the file that are read with JSON.parse, in file order:
\* the storage key, its default and the data type of its rows.
ParsedSections ==
  <<[key |-> "history_water", dflt |-> JsObj(<<>>), kind |-> "water_history"],
    [key |-> "history_protein", dflt |-> JsObj(<<>>), kind |-> "protein_history"],
    [key |-> "workout_state", dflt |-> JsObj(<<>>), kind |-> "workout_state"],
    [key |-> "workout_count", dflt |-> JsObj(<<>>), kind |-> "workout_count"],
    [key |-> "workout_history", dflt |-> JsObj(<<>>), kind |-> "workout_history"],
    [key |-> "habits_data", dflt |-> JsArr(<<>>), kind |-> "habit"]>>

\* JSON.parse(localStorage.getItem(key) || dflt) of the n-th section, and
\* its rows.
SectionRows(store, n) ==
  RowsOf(IF TruthyText(GetItem(store, ParsedSections[n].key))
         THEN JsonParse(GetItem(store, ParsedSections[n].key))
         ELSE [ok |-> TRUE, v |-> ParsedSections[n].dflt],
         ParsedSections[n].kind)

\* The document convertDataToCSV builds at clock reading now from sec, the
\* rows of the parsed sections: [ok, text]; ok is FALSE when an error is
\* thrown.
CsvDocument(store, now, sec) ==
  IF \E n \in 1..Len(ParsedSections) : ~sec[n].ok
  THEN [ok |-> FALSE]
  ELSE [ok |-> TRUE,
        text |->
          Join(<<Join([i \in 1..Len(Headers) |-> <<Headers[i]>>], <<Comma>>),
                 addRow("meta", "version", JsStr(<<"3", ".", "0">>)),
                 addRow("meta", "exportDate", JsStr(<<now>>)),
                 addRow("water", "goal", ItemValue(GetItem(store, "goal_water"))),
                 addRow("water", "intake",
                        ItemValue(GetItem(store, "intake_water")))>>
               \o sec[1].rows
               \o <<addRow("protein", "goal",
                           ItemValue(GetItem(store, "goal_protein"))),
                    addRow("protein", "intake",
                           ItemValue(GetItem(store, "intake_protein")))>>
               \o sec[2].rows \o sec[3].rows \o sec[4].rows \o sec[5].rows
               \o sec[6].rows
               \o <<addRow("settings", "theme",
                           ItemValue(GetItem(store, "app_theme"))),
                    addRow("settings", "reminder",
                           ItemValue(GetItem(store, "global_reminder")))>>,
               <<LF>>)]

\* convertDataToCSV(): the document over the rows of the sections.
convertDataToCSV(store, now) ==
  CsvDocument(store, now,
              [n \in 1..Len(ParsedSections) |-> SectionRows(store, n)])

(***************************************************************************)
(* parseCSVData: the parser.                                               *)
(***************************************************************************)

\* The length of the longest run of characters of set in s from position from.
PrefixLen(s, from, set) ==
  CHOOSE k \in 0..(Len(s) - from + 1) :
    /\ \A j \in 0..(k - 1) : s[from + j] \in set
    /\ from + k > Len(s) \/ s[from + k] \notin set

\* parseInt(value) for a value whose string is s: leading white space, an
\* optional sign, then digits.
ParseInt(s) ==
  LET start == 1 + PrefixLen(s, 1, {" ", "\t", CR, LF})
      signed == start <= Len(s) /\ s[start] \in {"-", "+"}
      first == IF signed THEN start + 1 ELSE start
      count == PrefixLen(s, first, {Digits[i] : i \in 1..10})
      n == TextToNat(SubSeq(s, first, first + count - 1))
  IN IF count = 0 THEN [t |-> "nan"]
     ELSE IF signed /\ s[start] = "-" THEN JsNum(0 - n) ELSE JsNum(n)

\* A split that leaves the line breaks inside a quoted cell alone.
SplitLinesOutsideQuotes(text) ==
  LET lfs == {i \in 1..Len(text) :
                /\ text[i] = LF
                /\ Cardinality({q \in 1..(i - 1) : text[q] = Quote}) % 2 = 0}
      at == [k \in 1..Cardinality(lfs) |->
               CHOOSE p \in lfs : Cardinality({q \in lfs : q < p}) = k - 1]
      first(k) == IF k = 1 THEN 1 ELSE at[k - 1] + 1
      last(k) == IF k > Len(at) THEN Len(text)
                 ELSE IF at[k] - 1 >= first(k) /\ text[at[k] - 1] = CR
                      THEN at[k] - 2
                      ELSE at[k] - 1
  IN [k \in 1..(Len(at) + 1) |-> SubSeq(text, first(k), last(k))]

\* csvData.split(/\r?\n/)
SplitLines(text) ==
  LET lfs == {i \in 1..Len(text) : text[i] = LF}
      at == [k \in 1..Cardinality(lfs) |->
               CHOOSE p \in lfs : Cardinality({q \in lfs : q < p}) = k - 1]
      first(k) == IF k = 1 THEN 1 ELSE at[k - 1] + 1
      last(k) == IF k > Len(at) THEN Len(text)
                 ELSE IF at[k] - 1 >= first(k) /\ text[at[k] - 1] = CR
                      THEN at[k] - 2
                      ELSE at[k] - 1
  IN [k \in 1..(Len(at) + 1) |-> SubSeq(text, first(k), last(k))]

\* A cell read at the position its column has in the export format.
CellByPosition(row, headers, name) ==
  LET at == CHOOSE i \in 1..Len(Headers) : Headers[i] = name IN
  IF at <= Len(row) THEN JsStr(row[at]) ELSE JsUndefined

\* row[headerMap.name]: headerMap.name is the position of the last header
\* cell equal to name, undefined when there is none.
Cell(row, headers, name) ==
  LET hits == {i \in 1..Len(headers) : headers[i] = <<name>>}
      idx == IF hits = {} THEN 0 ELSE CHOOSE i \in hits : \A j \in hits : j <= i
  IN IF idx = 0 \/ idx > Len(row) THEN JsUndefined ELSE JsStr(row[idx])

\* obj[key] = value on an object tree: in place, or as a new last member.
SetProp(obj, key, value) ==
  IF \E i \in 1..Len(obj.m) : obj.m[i].k = key
  THEN JsObj([i \in 1..Len(obj.m) |->
                IF obj.m[i].k = key THEN Member(key, value) ELSE obj.m[i]])
  ELSE JsObj(Append(obj.m, Member(key, value)))

\* A push that puts the entry at the front of its bucket.
PushEntryFront(history, date, entry) ==
  LET key == JsString(date)
      bucket == FindMember(history.m, key)
  IN SetProp(history, key,
             IF Truthy(bucket) THEN JsArr(<<entry>> \o bucket.a)
             ELSE JsArr(<<entry>>))

\* if (!history[date]) history[date] = []; history[date].push(entry)
PushEntry(history, date, entry) ==
  LET key == JsString(date)
      bucket == FindMember(history.m, key)
  IN SetProp(history, key,
             IF Truthy(bucket) THEN JsArr(Append(bucket.a, entry))
             ELSE JsArr(<<entry>>))

\* The importedData the parser starts from.
EmptyImport(now) ==
  [version |-> JsStr(<<"3", ".", "0">>),
   exportDate |-> JsStr(<<now>>),
   water |-> [goal |-> JsNull, intake |-> JsNull, history |-> JsObj(<<>>)],
   protein |-> [goal |-> JsNull, intake |-> JsNull, history |-> JsObj(<<>>)],
   workout |-> [state |-> JsObj(<<>>), count |-> JsObj(<<>>),
                history |-> JsObj(<<>>)],
   habits |-> [data |-> <<>>],
   settings |-> [theme |-> JsNull, reminder |-> JsNull]]

\* A padding whose placeholders have no history.
PadHabitsBare(data, index) ==
  [i \in 1..(IF Len(data) <= index THEN index + 1 ELSE Len(data)) |->
     IF i <= Len(data) THEN data[i] ELSE JsObj(<<>>)]

\* while (data.length <= index) data.push({ history: {} })
PadHabits(data, index) ==
  [i \in 1..(IF Len(data) <= index THEN index + 1 ELSE Len(data)) |->
     IF i <= Len(data) THEN data[i]
     ELSE JsObj(<<Member(<<"history">>, JsObj(<<>>))>>)]

\* A case 'habit' that starts every habit with an empty history.
HabitCaseFresh(d, habitIndex, name, color) ==
  IF habitIndex.t = "nan" \/ habitIndex.n < 0 THEN [ok |-> FALSE, d |-> d]
  ELSE [ok |-> TRUE,
        d |-> [d EXCEPT !.habits.data =
                 [PadHabits(d.habits.data, habitIndex.n)
                    EXCEPT ![habitIndex.n + 1] =
                      JsObj(<<Member(<<"name">>, name),
                              Member(<<"color">>, color),
                              Member(<<"history">>, JsObj(<<>>))>>)]]]

\* case 'habit' with habitIndex = parseInt(key): [ok, d]; a TypeError is
\* thrown when the index is no position of the array (NaN or negative).
HabitCase(d, habitIndex, name, color) ==
  IF habitIndex.t = "nan" \/ habitIndex.n < 0 THEN [ok |-> FALSE, d |-> d]
  ELSE LET data == PadHabits(d.habits.data, habitIndex.n)
           old == GetProp(data[habitIndex.n + 1], "history")
           habit == JsObj(<<Member(<<"name">>, name), Member(<<"color">>, color),
                            Member(<<"history">>,
                                   IF Truthy(old) THEN old ELSE JsObj(<<>>))>>)
       IN [ok |-> TRUE,
           d |-> [d EXCEPT !.habits.data =
                    [data EXCEPT ![habitIndex.n + 1] = habit]]]

\* key.split('_'): the text before the first "_" and the text between the
\* first and the second one (undefined when there is no "_").
SplitKey(key) ==
  LET us == {i \in 1..Len(key) : key[i] = "_"}
      u1 == IF us = {} THEN Len(key) + 1
            ELSE CHOOSE i \in us : \A j \in us : i <= j
      rest == {i \in us : i > u1}
      u2 == IF rest = {} THEN Len(key) + 1
            ELSE CHOOSE i \in rest : \A j \in rest : i <= j
  IN <<JsStr(SubSeq(key, 1, u1 - 1)),
       IF us = {} THEN JsUndefined ELSE JsStr(SubSeq(key, u1 + 1, u2 - 1))>>

\* case 'habit_history' with the key split into the index idx and the
\* date: [ok, d]; a TypeError is thrown when the index is no position of the
\* array.
HabitHistoryCase(d, idx, date, value) ==
  IF idx.t = "nan" \/ idx.n < 0 THEN [ok |-> FALSE, d |-> d]
  ELSE LET data == PadHabits(d.habits.data, idx.n)
           habit == data[idx.n + 1]
           old == GetProp(habit, "history")
           history == IF Truthy(old) THEN old ELSE JsObj(<<>>)
       IN [ok |-> TRUE,
           d |-> [d EXCEPT !.habits.data =
                    [data EXCEPT ![idx.n + 1] =
                       SetProp(habit, <<"history">>,
                               SetProp(history, date, value))]]]

\* One row of the loop over the data rows: [ok, d].
ProcessRow(st, row, headers) ==
  LET d == st.d
      dataType == Cell(row, headers, "data_type")
      key == Cell(row, headers, "key")
      value == Cell(row, headers, "value")
      kind == IF dataType.t = "string" /\ Len(dataType.s) = 1
              THEN dataType.s[1] ELSE ""
      intake == JsObj(<<Member(<<"amount">>,
                               ParseInt(JsString(Cell(row, headers, "amount")))),
                        Member(<<"timestamp">>,
                               Cell(row, headers, "timestamp"))>>)
  IN CASE kind = "meta" ->
            [ok |-> TRUE,
             d |-> [d EXCEPT
                      !.version = IF key = JsStr(<<"version">>) THEN value ELSE @,
                      !.exportDate = IF key = JsStr(<<"exportDate">>)
                                     THEN value ELSE @]]
       [] kind = "water" ->
            [ok |-> TRUE,
             d |-> [d EXCEPT
                      !.water.goal = IF key = JsStr(<<"goal">>) THEN value ELSE @,
                      !.water.intake = IF key = JsStr(<<"intake">>)
                                       THEN value ELSE @]]
       [] kind = "water_history" ->
            [ok |-> TRUE,
             d |-> [d EXCEPT !.water.history =
                      PushEntry(@, Cell(row, headers, "date"), intake)]]
       [] kind = "protein" ->
            [ok |-> TRUE,
             d |-> [d EXCEPT
                      !.protein.goal = IF key = JsStr(<<"goal">>)
                                       THEN value ELSE @,
                      !.protein.intake = IF key = JsStr(<<"intake">>)
                                         THEN value ELSE @]]
       [] kind = "protein_history" ->
            [ok |-> TRUE,
             d |-> [d EXCEPT !.protein.history =
                      PushEntry(@, Cell(row, headers, "date"), intake)]]
       [] kind = "workout_state" ->
            [ok |-> TRUE,
             d |-> [d EXCEPT !.workout.state =
                      SetProp(@, JsString(Cell(row, headers, "type")),
                        JsObj(<<Member(<<"completed">>,
                                  JsBool(Cell(row, headers, "completed")
                                           = JsStr(<<"true">>))),
                                Member(<<"order">>,
                                  ParseInt(JsString(Cell(row, headers, "order"))))>>))]]
       [] kind = "workout_count" ->
            [ok |-> TRUE,
             d |-> [d EXCEPT !.workout.count =
                      SetProp(@, JsString(Cell(row, headers, "type")),
                              ParseInt(JsString(Cell(row, headers, "count"))))]]
       [] kind = "workout_history" ->
            [ok |-> TRUE,
             d |-> [d EXCEPT !.workout.history =
                      PushEntry(@, Cell(row, headers, "date"),
                        JsObj(<<Member(<<"type">>, Cell(row, headers, "type")),
                                Member(<<"count">>,
                                       ParseInt(JsString(Cell(row, headers, "count")))),
                                Member(<<"timestamp">>,
                                       Cell(row, headers, "timestamp"))>>))]]
       [] kind = "habit" ->
            HabitCase(d, ParseInt(JsString(key)), Cell(row, headers, "name"),
                      Cell(row, headers, "color"))
       [] kind = "habit_history" ->
            IF key.t = "undefined"   \* key.split throws a TypeError
            THEN [ok |-> FALSE, d |-> d]
            ELSE HabitHistoryCase(d, ParseInt(JsString(SplitKey(key.s)[1])),
                                  JsString(SplitKey(key.s)[2]), value)
       [] kind = "settings" ->
            [ok |-> TRUE,
             d |-> [d EXCEPT
                      !.settings.theme = IF key = JsStr(<<"theme">>)
                                         THEN value ELSE @,
                      !.settings.reminder = IF key = JsStr(<<"reminder">>)
                                            THEN value ELSE @]]
       [] OTHER -> st

\* for (let i = 1; i < rows.length; i++) over the rows lo..hi (1-based):
\* blank rows are skipped, and nothing follows a thrown error.
RECURSIVE RowsLoop(_, _, _, _, _)
RowsLoop(st, rows, headers, lo, hi) ==
  IF lo > hi \/ ~st.ok THEN st
  ELSE IF lo = hi
       THEN IF \A i \in 1..Len(rows[lo]) : rows[lo][i] \in {" ", "\t", CR, LF}
            THEN st   \* !rows[i].trim()
            ELSE ProcessRow(st, parseCSVRow(rows[lo]), headers)
       ELSE LET mid == (lo + hi) \div 2
                half == RowsLoop(st, rows, headers, lo, mid)
            IN IF half.ok   \* settles the first half before the second
               THEN RowsLoop(half, rows, headers, mid + 1, hi)
               ELSE half

\* The return statement of parseCSVData after the loop ended in st: the
\* histories, the workout maps and the habits are stringified.
ReturnImported(st) ==
  IF ~st.ok THEN [ok |-> FALSE]
  ELSE [ok |-> TRUE,
        data |->
          [version |-> st.d.version,
           exportDate |-> st.d.exportDate,
           water |-> [st.d.water EXCEPT !.history = JsonStringify(@)],
           protein |-> [st.d.protein EXCEPT !.history = JsonStringify(@)],
           workout |-> [state |-> JsonStringify(st.d.workout.state),
                        count |-> JsonStringify(st.d.workout.count),
                        history |-> JsonStringify(st.d.workout.history)],
           habits |-> [data |-> JsonStringify(JsArr(st.d.habits.data))],
           settings |-> st.d.settings]]

\* A parser that asks for two lines after the header.
parseCSVDataStrict(csvData, now) ==
  LET rows == SplitLines(csvData) IN
  IF Len(rows) < 3 THEN [ok |-> FALSE]
  ELSE ReturnImported(RowsLoop([ok |-> TRUE, d |-> EmptyImport(now)], rows,
                               parseCSVRow(rows[1]), 2, Len(rows)))

\* parseCSVData(csvData) at clock reading now: [ok, data]; ok is FALSE when
\* an error is thrown.
parseCSVData(csvData, now) ==
  LET rows == SplitLines(csvData) IN
  IF Len(rows) < 2 THEN [ok |-> FALSE]
  ELSE ReturnImported(RowsLoop([ok |-> TRUE, d |-> EmptyImport(now)], rows,
                               parseCSVRow(rows[1]), 2, Len(rows)))

(***************************************************************************)
(* importData and performDataImport: the import orchestrator.              *)
(***************************************************************************)
\* The writes of performDataImport in program order: the key, the value, the
\* name the error message gives the field, and whether the result of
\* safeSetItem is checked.
ImportFields(d) ==
  <<[key |-> "goal_water", value |-> d.water.goal,
     field |-> "water goal", checked |-> TRUE],
    [key |-> "intake_water", value |-> d.water.intake,
     field |-> "water intake", checked |-> TRUE],
    [key |-> "history_water", value |-> d.water.history,
     field |-> "water history", checked |-> TRUE],
    [key |-> "goal_protein", value |-> d.protein.goal,
     field |-> "protein goal", checked |-> TRUE],
    [key |-> "intake_protein", value |-> d.protein.intake,
     field |-> "protein intake", checked |-> TRUE],
    [key |-> "history_protein", value |-> d.protein.history,
     field |-> "protein history", checked |-> TRUE],
    [key |-> "workout_state", value |-> d.workout.state,
     field |-> "workout state", checked |-> TRUE],
    [key |-> "workout_count", value |-> d.workout.count,
     field |-> "workout count", checked |-> TRUE],
    [key |-> "workout_history", value |-> d.workout.history,
     field |-> "workout history", checked |-> TRUE],
    [key |-> "habits_data", value |-> d.habits.data,
     field |-> "habits data", checked |-> TRUE],
    [key |-> "app_theme", value |-> d.settings.theme,
     field |-> "theme", checked |-> FALSE],
    [key |-> "global_reminder", value |-> d.settings.reminder,
     field |-> "reminder", checked |-> FALSE]>>

\* The state of performDataImport after safeSetItem returned r for the field
\* f: an unchecked result is ignored, a checked false throws the Error that
\* names the field.
AfterWrite(st, f, r) ==
  [store |-> r.store,
   ret |-> r.ret \/ ~f.checked,
   backup |-> st.backup,
   writes |-> Append(st.writes,
                     [key |-> f.key, field |-> f.field, value |-> f.value,
                      before |-> st.store, ret |-> r.ret, log |-> r.log]),
   error |-> IF ~r.ret /\ f.checked THEN f.field ELSE st.error]

\* One write of performDataImport: if (importedData.x.y) safeSetItem(key,
\* importedData.x.y).  st is [store, ret, backup, writes, error]: ret is
\* FALSE once an Error was thrown.  A cell of the file is a string and is
\* stored as its text; a history is the JSON text parseCSVData built.
ImportField(st, f) ==
  IF ~(IF "t" \in DOMAIN f.value THEN Truthy(f.value)
       ELSE TruthyText(f.value))
  THEN st
  ELSE AfterWrite(st, f,
                  safeSetItem(st.store, f.key,
                              IF "t" \in DOMAIN f.value THEN Txt(f.value.s)
                              ELSE f.value,
                              FALSE))

\* Writes between which a tracker stores an intake, after the first field.
RECURSIVE ImportFromInterleaved(_, _, _)
ImportFromInterleaved(st, fields, i) ==
  IF i > Len(fields) \/ ~st.ret THEN st
  ELSE ImportFromInterleaved(
         ImportField(IF i = 2
                     THEN [st EXCEPT !.store =
                             safeSetItem(@, "intake_protein",
                                         Txt(<<"7", "7">>), FALSE).store]
                     ELSE st,
                     fields[i]),
         fields, i + 1)

\* The writes from the i-th on: nothing follows a thrown Error.
RECURSIVE ImportFrom(_, _, _)
ImportFrom(st, fields, i) ==
  IF i > Len(fields) \/ ~st.ret THEN st
  ELSE ImportFrom(ImportField(st, fields[i]), fields, i + 1)

\* An import that takes its backup after its writes.
performDataImportLateBackup(store, importedData) ==
  LET r == ImportFrom([store |-> store, ret |-> TRUE, backup |-> <<>>,
                       writes |-> <<>>, error |-> ""],
                      ImportFields(importedData), 1)
  IN [r EXCEPT !.backup = [key \in DOMAIN r.store |-> GetItem(r.store, key)]]

\* An import that puts its backup back when a write fails.
performDataImportRollback(store, importedData) ==
  LET r == ImportFrom([store |-> store, ret |-> TRUE,
                       backup |-> [key \in DOMAIN store |-> GetItem(store, key)],
                       writes |-> <<>>, error |-> ""],
                      ImportFields(importedData), 1)
  IN IF r.ret THEN r ELSE [r EXCEPT !.store = r.backup]

\* performDataImport(importedData): [store, ret, backup, writes, error].  The
\* backup is filled first, backup[key] = localStorage.getItem(key) for every
\* localStorage.key(i); then the fields are written.
performDataImport(store, importedData) ==
  ImportFrom([store |-> store, ret |-> TRUE,
              backup |-> [key \in DOMAIN store |-> GetItem(store, key)],
              writes |-> <<>>, error |-> ""],
             ImportFields(importedData), 1)

\* A string member of importedData as JSON.stringify meets it.
TextNode(value) ==
  IF "t" \in DOMAIN value THEN value ELSE JsStr(ItemText(value))

\* JSON.stringify(importedData).length
ImportSize(d) ==
  JsonLen(Normalize(JsObj(
    <<Prop("version", d.version),
      Prop("exportDate", d.exportDate),
      Prop("water", JsObj(<<Prop("goal", d.water.goal),
                            Prop("intake", d.water.intake),
                            Prop("history", TextNode(d.water.history))>>)),
      Prop("protein", JsObj(<<Prop("goal", d.protein.goal),
                              Prop("intake", d.protein.intake),
                              Prop("history", TextNode(d.protein.history))>>)),
      Prop("workout", JsObj(<<Prop("state", TextNode(d.workout.state)),
                              Prop("count", TextNode(d.workout.count)),
                              Prop("history", TextNode(d.workout.history))>>)),
      Prop("habits", JsObj(<<Prop("data", TextNode(d.habits.data))>>)),
      Prop("settings", JsObj(<<Prop("theme", d.settings.theme),
                               Prop("reminder", d.settings.reminder)>>))>>)))

\* A type check that lets every file through.
WrongFileTypeNever(file) == FALSE

\* file.type !== 'text/csv' && !file.name.endsWith('.csv')
WrongFileType(file) == ~file.typeCsv /\ ~file.nameCsv

\* A prompt that takes every answer for consent.
ConfirmedAlways(answer) == TRUE

\* confirm('This will replace your current tracking data. ...')
Confirmed(answer) == answer

\* What onload reports after performDataImport returned r.
AfterImport(r, data) ==
  [store |-> r.store,
   outcome |-> IF r.ret THEN "imported" ELSE "import-failed",
   data |-> data, backup |-> r.backup, writes |-> r.writes,
   error |-> r.error]

\* reader.onload after parseCSVData returned p: [store, outcome, ...].
AfterParse(store, p, answer) ==
  IF ~p.ok
  THEN [store |-> store, outcome |-> "parse-error"]
  ELSE IF ImportSize(p.data) * 10 > MaxSize * 9
       \* importSize > maxStorage * 0.9: the product is the double 1887436.8
       \* (off by less than 1e-9) or exactly 4718592.
       THEN [store |-> store, outcome |-> "estimate-too-large"]
       ELSE IF ~Confirmed(answer)
            THEN [store |-> store, outcome |-> "declined"]
            ELSE AfterImport(performDataImport(store, p.data), p.data)

\* reader.onload at clock reading now, the user answering the prompt with
\* answer: [store, outcome, ...].
onload(store, csvData, now, answer) ==
  AfterParse(store, parseCSVData(csvData, now), answer)

(***************************************************************************)
(* The codec on one cell: a value is escaped, then tokenized.              *)
(***************************************************************************)
NoCall == [op |-> "none"]

\* The parts of the state a specification leaves alone.
CodecIdle == cIn = JsNull /\ cOut = <<>> /\ cFields = <<>> /\ cPc = "off"

AppIdle ==
  /\ exported = [status |-> "none"]
  /\ roundTrip = [status |-> "none"]
  /\ reads = {}
  /\ app = NoCall
  /\ imports = 0
  /\ sw = [phase |-> "none"]

\* The values of a cell: null, undefined, numbers, a boolean, NaN, and every
\* text of at most MaxStrLen characters over a letter, the comma, the double
\* quote and the line break.
CodecInit ==
  /\ cIn \in {JsNull, JsUndefined, JsNum(7), JsNum(12), JsBool(TRUE),
              [t |-> "nan"]}
               \cup {JsStr(s) : s \in UNION {[1..n -> {"a", Comma, Quote, LF}] :
                                               n \in 0..MaxStrLen}}
  /\ cOut = <<>>
  /\ cFields = <<>>
  /\ cPc = "input"
  /\ storage = <<>> /\ isIOS = FALSE /\ capacity = 0 /\ smCall = NoCall
  /\ AppIdle

EscapeCell ==
  /\ cPc = "input"
  /\ cOut' = escapeCSV(cIn)
  /\ cPc' = "escaped"
  /\ UNCHANGED <<cIn, cFields, storeVars, smCall, appVars>>

DecodeCell ==
  /\ cPc = "escaped"
  /\ cFields' = parseCSVRow(cOut)
  /\ cPc' = "decoded"
  /\ UNCHANGED <<cIn, cOut, storeVars, smCall, appVars>>

SpecCodec == CodecInit /\ [][EscapeCell \/ DecodeCell]_vars

(***************************************************************************)
(* The codec on one row: twelve cells are escaped and joined with commas,  *)
(* then the line is tokenized.                                             *)
(***************************************************************************)
\* The row handed to rows.push: every cell is empty or every cell is "x",
\* but for two cells that hold any text of at most two characters over a
\* letter, the comma and the double quote.
RowInit ==
  /\ \E fill \in {<<>>, <<"x">>}, p \in 1..Len(Headers), q \in 1..Len(Headers),
        a \in UNION {[1..n -> {"a", Comma, Quote}] : n \in 0..2},
        b \in UNION {[1..n -> {"a", Comma, Quote}] : n \in 0..2} :
       /\ p < q
       /\ cIn = [i \in 1..Len(Headers) |->
                  JsStr(IF i = p THEN a ELSE IF i = q THEN b ELSE fill)]
  /\ cOut = <<>>
  /\ cFields = <<>>
  /\ cPc = "row"
  /\ storage = <<>> /\ isIOS = FALSE /\ capacity = 0 /\ smCall = NoCall
  /\ AppIdle

\* rows.push(row.map(escapeCSV).join(','))
EscapeRow ==
  /\ cPc = "row"
  /\ cOut' = RowLine(cIn)
  /\ cPc' = "escaped"
  /\ UNCHANGED <<cIn, cFields, storeVars, smCall, appVars>>

SpecRow == RowInit /\ [][EscapeRow \/ DecodeCell]_vars

(***************************************************************************)
(* The storage manager called on stored histories.                         *)
(***************************************************************************)
MaxExtraDates == 2

\* The n-th calendar date of the model, "YYYY-MM-DD" (28 days of each month).
DateKey(n) ==
  LET month == 1 + ((n - 1) \div 28)
      day == 1 + ((n - 1) % 28)
  IN <<"2", "0", "2", "4", "-", Digits[(month \div 10) + 1],
       Digits[(month % 10) + 1], "-", Digits[(day \div 10) + 1],
       Digits[(day % 10) + 1]>>

IntakeEntry(n) ==
  JsObj(<<Prop("amount", JsNum(n)), Prop("timestamp", JsStr(<<"2024-01-01T08:00:00Z">>))>>)

\* A date-bucketed history whose dates were inserted in the order given.
HistoryOf(dateNums, entry) ==
  JsObj([i \in 1..Len(dateNums) |-> Member(DateKey(dateNums[i]), JsArr(<<entry>>))])

HabitOf(name, dateNums) ==
  JsObj(<<Prop("name", JsStr(name)), Prop("color", JsStr(<<"#4CAF50">>)),
          Prop("history",
               JsObj([i \in 1..Len(dateNums) |->
                        Member(DateKey(dateNums[i]), JsStr(<<"completed">>))]))>>)

Ascending(n) == [i \in 1..n |-> i]
Descending(n) == [i \in 1..n |-> n + 1 - i]

Corrupt == Txt(<<"{", "oops">>)

\* The histories present at the start, by the size of each of the four
\* keys: -2 absent, -1 unparseable, else its dates.  Two keys at most are
\* present on the constrained tier, one on the standard tier.
SizeVectors ==
  {sizes \in [1..4 -> {-2, -1, 2} \cup {DaysToKeep + d : d \in 0..MaxExtraDates}] :
     Cardinality({i \in 1..4 : sizes[i] # -2}) <= (IF isIOS THEN 2 ELSE 1)}

StoreOf(sizes) ==
  LET present == {i \in 1..4 : sizes[i] # -2} IN
  [key \in {HistoryKeys[i] : i \in present} \cup {"goal_water"} |->
     IF key = "goal_water" THEN Txt(<<"2", "0", "0", "0">>)
     ELSE LET n == sizes[CHOOSE j \in 1..4 : HistoryKeys[j] = key] IN
          IF n = -1 THEN Corrupt
          ELSE CASE key = "history_water" ->
                      Json(HistoryOf(Ascending(n), IntakeEntry(250)))
                 [] key = "history_protein" ->
                      Json(HistoryOf(Descending(n), IntakeEntry(30)))
                 [] key = "workout_history" ->
                      Json(HistoryOf(Ascending(n),
                                     JsObj(<<Prop("type", JsStr(<<"pushups">>)),
                  Prop("count", JsNum(20)),
                  Prop("timestamp", JsStr(<<"2024-01-01T08:00:00Z">>))>>)))
                 [] key = "habits_data" ->
                      Json(JsArr(<<HabitOf(<<"read">>, Ascending(2)),
                                   HabitOf(<<"run">>, Descending(n))>>))]

StorageInit ==
  /\ isIOS \in BOOLEAN
  /\ \E sizes \in SizeVectors : storage = StoreOf(sizes)
  \* the free room the platform has left
  /\ \E slack \in {0, 1000000} : capacity = PlatformSize(storage) + slack
  /\ smCall = NoCall
  /\ CodecIdle /\ AppIdle

\* A caller writes through safeSetItem.
CallSafeSetItem ==
  /\ smCall.op = "none"
  /\ \E w \in {<<"goal_water", Txt(<<"2", "5", "0", "0">>)>>,
               <<"intake_water", Run(200)>>,
               <<"history_water",
                 Json(HistoryOf(Ascending(3), IntakeEntry(500)))>>},
        otherError \in BOOLEAN :
     \E r \in {safeSetItem(storage, w[1], w[2], otherError)} :
       /\ storage' = r.store
       /\ smCall' = [op |-> "safeSetItem", key |-> w[1], value |-> w[2],
                     ret |-> r.ret, log |-> r.log, before |-> storage]
  /\ UNCHANGED <<isIOS, capacity, codecVars, appVars>>

CallCleanupOldData ==
  /\ smCall.op = "none"
  /\ \E r \in {cleanupOldData(storage)} :
     /\ storage' = r.store
     /\ smCall' = [op |-> "cleanupOldData", ret |-> r.ret, before |-> storage,
                   written |-> r.written]
  /\ UNCHANGED <<isIOS, capacity, codecVars, appVars>>

SpecStorage == StorageInit /\ [][CallSafeSetItem \/ CallCleanupOldData]_vars

(***************************************************************************)
(* The quota estimate on a namespace that grows past the threshold.        *)
(***************************************************************************)
QuotaSpread == 3

PadKey == "other_data"

\* The namespace at the start: one key padded to a usage just below the
\* threshold, and possibly a key whose value is empty.
QuotaInit ==
  /\ isIOS \in BOOLEAN
  /\ \E draft \in BOOLEAN :
       storage =
         [key \in {PadKey} \cup (IF draft THEN {"draft"} ELSE {}) |->
            IF key = PadKey
            THEN Run(((MaxSize * ThresholdTenths) \div 10) - QuotaSpread
                     - Len(PadKey))
            ELSE Txt(<<>>)]
  /\ capacity = 2 * MaxSize
  /\ smCall = NoCall
  /\ CodecIdle /\ AppIdle

\* The application stores one more character.
GrowByOne ==
  /\ smCall.op = "none"
  /\ getUsage(storage) < ((MaxSize * ThresholdTenths) \div 10) + QuotaSpread
  /\ storage' = SetItem(storage, PadKey, Run(storage[PadKey].n + 1)).store
  /\ UNCHANGED <<isIOS, capacity, smCall, codecVars, appVars>>

CallIsNearQuota ==
  /\ smCall.op = "none"
  /\ smCall' = [op |-> "isNearQuota", ret |-> isNearQuota(storage)]
  /\ UNCHANGED <<storeVars, codecVars, appVars>>

CallGetUsage ==
  /\ smCall.op = "none"
  /\ smCall' = [op |-> "getUsage", ret |-> getUsage(storage)]
  /\ UNCHANGED <<storeVars, codecVars, appVars>>

CallGetRemainingSpace ==
  /\ smCall.op = "none"
  /\ smCall' = [op |-> "getRemainingSpace", ret |-> getRemainingSpace(storage)]
  /\ UNCHANGED <<storeVars, codecVars, appVars>>

SpecQuota ==
  QuotaInit /\ [][\/ GrowByOne
                  \/ CallIsNearQuota
                  \/ CallGetUsage
                  \/ CallGetRemainingSpace
                  \/ /\ smCall.op # "none"   \* the caller read the result
                     /\ smCall' = NoCall
                     /\ UNCHANGED <<storeVars, codecVars, appVars>>]_vars

(***************************************************************************)
(* Every operation of the storage manager, also where the platform refuses *)
(* writes or denies the access to storage.                                 *)
(***************************************************************************)
\* The stored histories with no room left, with room, or with the access
\* denied; or private browsing: an empty storage with a quota of zero.
ManagerInit ==
  /\ isIOS \in BOOLEAN
  /\ \/ \E sizes \in SizeVectors, room \in {0, 1000000, -1} :
          /\ storage = StoreOf(sizes)
          /\ capacity = (IF room < 0 THEN -1 ELSE PlatformSize(storage) + room)
     \/ storage = <<>> /\ capacity = 0
  /\ smCall = NoCall
  /\ CodecIdle /\ AppIdle

CallIsAvailable ==
  /\ smCall.op = "none"
  /\ \E r \in {isAvailable(storage)} :
     /\ storage' = r.store
     /\ smCall' = [op |-> "isAvailable", ret |-> r.ret, threw |-> r.threw,
                   log |-> r.log, before |-> storage]
  /\ UNCHANGED <<isIOS, capacity, codecVars, appVars>>

SpecManager ==
  ManagerInit /\ [][\/ CallIsAvailable
                    \/ CallSafeSetItem
                    \/ CallCleanupOldData
                    \/ CallIsNearQuota
                    \/ CallGetUsage
                    \/ CallGetRemainingSpace]_vars

(***************************************************************************)
(* Export and re-import of the text: exportData, then parseCSVData on the  *)
(* file it produced.                                                       *)
(***************************************************************************)
\* Readings of the clock, new Date().toISOString().
Clock == {"2024-06-01T12:00:00.000Z", "2024-06-02T09:30:00.000Z"}

\* An export that records its date in storage.
exportDataStamping ==
  /\ exported.status = "none"
  /\ \E now \in Clock :
     \E csv \in {convertDataToCSV(storage, now)} :
       /\ exported' = IF csv.ok THEN [status |-> "ok", text |-> csv.text]
                      ELSE [status |-> "error"]
       /\ storage' = Put(storage, "last_export", Txt(<<now>>))
  /\ app' = [op |-> "exportData", before |-> storage]
  /\ UNCHANGED <<isIOS, capacity, codecVars, smCall, roundTrip, reads, imports, sw>>

\* exportData(): the file is produced and offered, or the error is shown.
exportData ==
  /\ exported.status = "none"
  /\ \E now \in Clock :
     \E csv \in {convertDataToCSV(storage, now)} :
       exported' = IF csv.ok THEN [status |-> "ok", text |-> csv.text]
                   ELSE [status |-> "error"]
  /\ app' = [op |-> "exportData", before |-> storage]
  /\ UNCHANGED <<storeVars, codecVars, smCall, roundTrip, reads, imports, sw>>

\* parseCSVData on the exported text.
ParseExported ==
  /\ exported.status = "ok"
  /\ roundTrip.status = "none"
  /\ \E now \in Clock :
     \E p \in {parseCSVData(exported.text, now)} :
       roundTrip' = IF p.ok THEN [status |-> "ok", data |-> p.data]
                    ELSE [status |-> "error"]
  /\ UNCHANGED <<storeVars, codecVars, smCall, exported, reads, app, imports, sw>>

\* The stored key/value pairs of a snapshot; NoItem marks an absent key.
SnapshotPairs(habits, water, protein, workouts, scalars) ==
  <<<<"goal_water", IF scalars THEN Txt(<<"2", "0", "0", "0">>) ELSE NoItem>>,
    <<"intake_water", IF scalars THEN Txt(<<"7", "5", "0">>) ELSE NoItem>>,
    <<"history_water", water>>,
    <<"goal_protein", IF scalars THEN Txt(<<"1", "2", "0">>) ELSE NoItem>>,
    <<"intake_protein", IF scalars THEN Txt(<<"4", "5">>) ELSE NoItem>>,
    <<"history_protein", protein>>,
    <<"workout_state",
      IF workouts
      THEN Json(JsObj(<<Member(<<"pushups">>,
                               JsObj(<<Prop("completed", JsBool(TRUE)),
                                       Prop("order", JsNum(0))>>)),
                        Member(<<"squats">>,
                               JsObj(<<Prop("completed", JsBool(FALSE)),
                                       Prop("order", JsNum(1))>>))>>))
      ELSE NoItem>>,
    <<"workout_count",
      IF workouts
      THEN Json(JsObj(<<Member(<<"pushups">>, JsNum(20)),
                        Member(<<"squats">>, JsNum(0))>>))
      ELSE NoItem>>,
    <<"workout_history",
      IF workouts THEN Json(HistoryOf(<<1>>, JsObj(<<Prop("type", JsStr(<<"pushups">>)),
                  Prop("count", JsNum(20)),
                  Prop("timestamp", JsStr(<<"2024-01-01T08:00:00Z">>))>>)))
      ELSE NoItem>>,
    <<"habits_data", habits>>,
    <<"app_theme", IF scalars THEN Txt(<<"dark">>) ELSE NoItem>>,
    <<"global_reminder",
      IF scalars
      THEN Json(JsObj(<<Prop("enabled", JsBool(TRUE)), Prop("interval", JsNum(60))>>))
      ELSE NoItem>>>>

\* The storage holding the pairs whose value is not NoItem.
StoreOfPairs(pairs) ==
  [key \in {pairs[i][1] : i \in {j \in 1..Len(pairs) : pairs[j][2] # NoItem}} |->
     pairs[CHOOSE i \in 1..Len(pairs) : pairs[i][1] = key][2]]

\* The snapshots exported.  The habits are absent, two habits, or one habit
\* whose name is plain, holds a comma, is wrapped in quotes, is one double
\* quote, or holds a line break.
ExportInit ==
  /\ isIOS = FALSE
  /\ storage \in
      {StoreOfPairs(SnapshotPairs(habits, water, protein, workouts, scalars)) :
         habits \in
           {NoItem,
            Json(JsArr(<<HabitOf(<<"r", "e", "a", "d">>, <<>>),
                         HabitOf(<<"R", "u", "n">>, Descending(2))>>))}
             \cup {Json(JsArr(<<HabitOf(name, Ascending(2))>>)) :
                     name \in {<<"R", "u", "n">>, <<"a", Comma, " ", "b">>,
                               <<Quote, "a", Quote>>, <<Quote>>,
                               <<"a", LF, "b">>}},
         water \in
           {NoItem,
            Json(HistoryOf(<<1>>, IntakeEntry(250))),
            Json(JsObj(<<Member(DateKey(2),
                                JsArr(<<IntakeEntry(250), IntakeEntry(500)>>)),
                         Member(DateKey(1), JsArr(<<IntakeEntry(300)>>))>>))},
         protein \in {NoItem, Json(HistoryOf(<<2>>, IntakeEntry(30))), Corrupt},
         workouts \in BOOLEAN, scalars \in BOOLEAN}
  /\ capacity = PlatformSize(storage)
  /\ smCall = NoCall
  /\ CodecIdle /\ AppIdle

SpecExport == ExportInit /\ [][exportData \/ ParseExported]_vars

(***************************************************************************)
(* parseCSVData on files in the export format whose data rows come in any  *)
(* order.                                                                  *)
(***************************************************************************)
MaxRows == 3

\* The data rows a file is made of, as arrays of twelve cells: the version,
\* the water goal, water intakes of two dates, a protein intake, the habits
\* 0 and 5, and days of their histories.
DataRows ==
  {[BlankRow EXCEPT ![1] = JsStr(<<"meta">>), ![2] = JsStr(<<"version">>),
                    ![3] = JsStr(<<"3", ".", "0">>)],
   [BlankRow EXCEPT ![1] = JsStr(<<"water">>), ![2] = JsStr(<<"goal">>),
                    ![3] = JsStr(<<"2", "0", "0", "0">>)],
   [BlankRow EXCEPT ![1] = JsStr(<<"protein_history">>),
                    ![2] = JsStr(DateKey(1) \o <<"_", "0">>),
                    ![4] = JsStr(DateKey(1)),
                    ![5] = JsStr(<<"3", "0">>),
                    ![6] = JsStr(<<"2024-01-01T09:00:00Z">>)]}
    \cup {[BlankRow EXCEPT ![1] = JsStr(<<"water_history">>),
                           ![2] = JsStr(DateKey(e[1]) \o <<"_", "0">>),
                           ![4] = JsStr(DateKey(e[1])),
                           ![5] = JsStr(e[2]),
                           ![6] = JsStr(<<"2024-01-01T08:00:00Z">>)] :
            e \in {<<1, <<"2", "5", "0">>>>, <<1, <<"5", "0", "0">>>>,
                   <<2, <<"3", "0", "0">>>>}}
    \cup {[BlankRow EXCEPT ![1] = JsStr(<<"habit">>),
                           ![2] = JsStr(IntToText(h[1])),
                           ![9] = JsStr(h[2]),
                           ![10] = JsStr(<<"#4CAF50">>)] :
            h \in {<<0, <<"R", "u", "n">>>>, <<5, <<"R", "e", "a", "d">>>>}}
    \cup {[BlankRow EXCEPT ![1] = JsStr(<<"habit_history">>),
                           ![2] = JsStr(IntToText(h[1]) \o <<"_">>
                                          \o DateKey(h[2])),
                           ![3] = JsStr(<<h[3]>>),
                           ![4] = JsStr(DateKey(h[2]))] :
            h \in {<<0, 1, "completed">>, <<0, 2, "missed">>,
                   <<5, 1, "completed">>}}

\* The file offered to the parser: the header line, then at most MaxRows
\* data rows in any order, with or without a line terminator at the end.
ParseInit ==
  /\ \E rows \in UNION {[1..n -> DataRows] : n \in 0..MaxRows},
        ending \in {<<>>, <<LF>>} :
       exported =
         [status |-> "ok", rows |-> rows, ending |-> ending,
          text |-> Join(<<Join([i \in 1..Len(Headers) |-> <<Headers[i]>>],
                               <<Comma>>)>>
                          \o [i \in 1..Len(rows) |-> RowLine(rows[i])],
                        <<LF>>) \o ending]
  /\ roundTrip = [status |-> "none"]
  /\ reads = {} /\ app = NoCall /\ imports = 0
  /\ sw = [phase |-> "none"]
  /\ storage = <<>> /\ isIOS = FALSE /\ capacity = 0 /\ smCall = NoCall
  /\ CodecIdle

SpecParse == ParseInit /\ [][ParseExported]_vars

(***************************************************************************)
(* parseCSVData on files whose columns come in another order, and whose    *)
(* numeric cells may hold no number.                                       *)
(***************************************************************************)
MaxColumnRows == 2

\* Orders of the twelve columns: column j of the file is column order[j] of
\* the export format.  The order of the format, its reversal, a rotation
\* and a scattering.

\* Data rows of every type that has a numeric column, as arrays of twelve
\* cells in the order of the format: the amount, count or order cell holds
\* a number, nothing, letters, or digits followed by letters.
ColumnRows ==
  {[BlankRow EXCEPT ![1] = JsStr(<<"meta">>), ![2] = JsStr(<<"exportDate">>),
                    ![3] = JsStr(<<"2024-05-31T07:00:00.000Z">>)],
   [BlankRow EXCEPT ![1] = JsStr(<<"habit">>), ![2] = JsStr(<<"0">>),
                    ![9] = JsStr(<<"R", "u", "n">>),
                    ![10] = JsStr(<<"#4CAF50">>)],
   [BlankRow EXCEPT ![1] = JsStr(<<"habit_history">>),
                    ![2] = JsStr(<<"0", "_">> \o DateKey(1)),
                    ![3] = JsStr(<<"completed">>),
                    ![4] = JsStr(DateKey(1))]}
    \cup {[BlankRow EXCEPT ![1] = JsStr(<<kind>>),
                           ![2] = JsStr(DateKey(1) \o <<"_", "0">>),
                           ![4] = JsStr(DateKey(1)),
                           ![5] = JsStr(amount),
                           ![6] = JsStr(<<"2024-01-01T08:00:00Z">>)] :
            kind \in {"water_history", "protein_history"},
            amount \in {<<"2", "5", "0">>, <<>>, <<"a", "b", "c">>}}
    \cup {[BlankRow EXCEPT ![1] = JsStr(<<"workout_state">>),
                           ![2] = JsStr(<<"pushups">>),
                           ![7] = JsStr(<<"pushups">>),
                           ![11] = JsStr(<<"true">>),
                           ![12] = JsStr(order)] :
            order \in {<<"1">>, <<>>, <<"x">>}}
    \cup {[BlankRow EXCEPT ![1] = JsStr(<<"workout_count">>),
                           ![2] = JsStr(<<"pushups">>),
                           ![7] = JsStr(<<"pushups">>),
                           ![8] = JsStr(count)] :
            count \in {<<"2", "0">>, <<>>, <<"1", "2", "p", "x">>}}
    \cup {[BlankRow EXCEPT ![1] = JsStr(<<"workout_history">>),
                           ![2] = JsStr(DateKey(1) \o <<"_", "0">>),
                           ![4] = JsStr(DateKey(1)),
                           ![6] = JsStr(<<"2024-01-01T08:00:00Z">>),
                           ![7] = JsStr(<<"pushups">>),
                           ![8] = JsStr(count)] :
            count \in {<<"2", "0">>, <<>>, <<"n", "/", "a">>}}

\* The file offered to the parser: at most MaxColumnRows data rows under a
\* header, its columns in one of the orders; plain is the same file with
\* its columns in the order of the format.
ColumnsInit ==
  /\ \E rows \in UNION {[1..n -> ColumnRows] : n \in 1..MaxColumnRows},
        order \in {[j \in 1..Len(Headers) |-> j],
                   [j \in 1..Len(Headers) |-> Len(Headers) + 1 - j],
                   [j \in 1..Len(Headers) |-> (j % Len(Headers)) + 1],
                   [j \in 1..Len(Headers) |-> (5 * j) % (Len(Headers) + 1)]} :
       LET Document(cols) ==
             Join(<<Join([j \in 1..Len(Headers) |-> <<Headers[cols[j]]>>],
                         <<Comma>>)>>
                    \o [i \in 1..Len(rows) |->
                          RowLine([j \in 1..Len(Headers) |-> rows[i][cols[j]]])],
                  <<LF>>)
       IN exported =
            [status |-> "ok", rows |-> rows, order |-> order,
             plain |-> Document([j \in 1..Len(Headers) |-> j]),
             text |-> Document(order)]
  /\ roundTrip = [status |-> "none"]
  /\ reads = {} /\ app = NoCall /\ imports = 0
  /\ sw = [phase |-> "none"]
  /\ storage = <<>> /\ isIOS = FALSE /\ capacity = 0 /\ smCall = NoCall
  /\ CodecIdle

SpecColumns == ColumnsInit /\ [][ParseExported]_vars

(***************************************************************************)
(* Imports: files are chosen, read asynchronously and imported, while the  *)
(* trackers keep writing.                                                  *)
(***************************************************************************)
FullStore ==
  StoreOfPairs(SnapshotPairs(
    Json(JsArr(<<HabitOf(<<"r", "e", "a", "d">>, <<>>),
                 HabitOf(<<"R", "u", "n">>, Descending(2))>>)),
    Json(HistoryOf(<<1>>, IntakeEntry(250))),
    Json(HistoryOf(<<2>>, IntakeEntry(30))),
    TRUE, TRUE))

HeaderLine == Join([i \in 1..Len(Headers) |-> <<Headers[i]>>], <<Comma>>)

\* The files the user can choose.  Texts written by hand, as .csv files of
\* type text/csv: a header alone, a habit row whose key is no number, a goal
\* that is one long run of letters, and a text of twice that size.  The
\* export of the full storage with neither the type nor the name of a CSV
\* file; the export of a storage with a longer theme, named .csv but of
\* another type; the export of a storage with more water history, of type
\* text/csv under another name.  Files of rows, kept with their rows: the
\* water goal followed by the water intake 250 of the first date, alone or
\* before or after another intake row of that date.
ImportFiles ==
  {[text |-> text, typeCsv |-> TRUE, nameCsv |-> TRUE] :
     text \in
       {HeaderLine,
        Join(<<HeaderLine,
               <<"habit", Comma, "x", Comma, Comma, Comma, Comma, Comma,
                 Comma, Comma, "R", "u", "n", Comma, Comma, Comma>>>>,
             <<LF>>),
        Join(<<HeaderLine, <<"water", Comma, "goal", Comma, Bulk>>>>, <<LF>>),
        Join(<<HeaderLine, <<"water", Comma, "goal", Comma, Bulk, Bulk>>>>,
             <<LF>>)}}
    \cup {[text |-> convertDataToCSV(f.store, "2024-05-31T23:00:00.000Z").text,
           typeCsv |-> f.typeCsv, nameCsv |-> f.nameCsv] :
            f \in
              {[store |-> FullStore, typeCsv |-> FALSE, nameCsv |-> FALSE],
               [store |-> [FullStore EXCEPT !["app_theme"] =
                             Txt(<<"dark", "-", "contrast">>)],
                typeCsv |-> FALSE, nameCsv |-> TRUE],
               [store |-> [FullStore EXCEPT !["history_water"] =
                             Json(HistoryOf(<<1, 2>>, IntakeEntry(250)))],
                typeCsv |-> TRUE, nameCsv |-> FALSE]}}
    \cup {[text |-> Join(<<HeaderLine>>
                           \o [i \in 1..Len(rows) |-> RowLine(rows[i])],
                         <<LF>>),
           typeCsv |-> TRUE, nameCsv |-> TRUE, rows |-> rows] :
            rows \in
              {r \in UNION {[1..n -> DataRows] : n \in 2..3} :
                 /\ r[1][1].s = <<"water">>
                 /\ \E i \in 2..Len(r) : r[i][5].s = <<"2", "5", "0">>
                 /\ \A i \in 2..Len(r) :
                      /\ r[i][1].s \in {<<"water_history">>, <<"protein_history">>}
                      /\ r[i][4].s = DateKey(1)
                      /\ \A j \in 2..Len(r) : i # j => r[i] # r[j]}}

\* The application starts from the full storage with no room left, the
\* same with room, the full storage with a protein history of 31 dates and
\* no room left, or a nearly empty storage with room.
ImportInit ==
  /\ isIOS \in BOOLEAN
  /\ \E start \in
         {[store |-> FullStore, slack |-> 0],
          [store |-> FullStore, slack |-> 1000000],
          [store |-> [FullStore EXCEPT !["history_protein"] =
                        Json(HistoryOf(Ascending(31), IntakeEntry(30)))],
           slack |-> 0],
          [store |-> [key \in {"goal_water"} |-> Txt(<<"2", "0", "0", "0">>)],
           slack |-> 1000000]} :
       /\ storage = start.store
       /\ capacity = PlatformSize(storage) + start.slack
  /\ smCall = NoCall
  /\ CodecIdle /\ AppIdle

\* importData(event): the change event of the file input.
importData ==
  /\ imports < MaxImports
  /\ \E file \in ImportFiles :
       /\ app' = [op |-> "importData", file |-> file, before |-> storage,
                  outcome |-> IF TextLen(file.text) > MaxSize THEN "file-too-large"
                              ELSE IF WrongFileType(file) THEN "wrong-type"
                              ELSE "reading"]
       /\ reads' = IF TextLen(file.text) > MaxSize \/ WrongFileType(file) THEN reads
                   ELSE reads \cup {file}
  /\ imports' = imports + 1
  /\ UNCHANGED <<storeVars, codecVars, smCall, exported, roundTrip, sw>>

\* reader.onload: the read of a file completed.
ReaderLoaded ==
  /\ \E file \in reads, now \in {"2024-06-03T08:00:00.000Z"},
        answer \in BOOLEAN :
     \E r \in {onload(storage, file.text, now, answer)} :
       /\ storage' = r.store
       /\ app' = [op |-> "onload", file |-> file, before |-> storage,
                  outcome |-> r.outcome, answer |-> answer,
                  backup |-> IF r.outcome \in {"imported", "import-failed"}
                             THEN r.backup ELSE <<>>,
                  writes |-> IF r.outcome \in {"imported", "import-failed"}
                             THEN r.writes ELSE <<>>,
                  error |-> IF r.outcome = "import-failed" THEN r.error ELSE ""]
       /\ reads' = reads \ {file}
  /\ UNCHANGED <<isIOS, capacity, codecVars, smCall, exported, roundTrip, imports, sw>>

\* reader.onerror: the read of a file failed.
ReaderFailed ==
  /\ \E file \in reads :
       /\ app' = [op |-> "onerror", file |-> file, before |-> storage,
                  outcome |-> "read-error"]
       /\ reads' = reads \ {file}
  /\ UNCHANGED <<storeVars, codecVars, smCall, exported, roundTrip, imports, sw>>

\* A tracker records an intake through safeSetItem.
TrackerWrite ==
  /\ GetItem(storage, "intake_water") # Txt(<<"9", "0", "0">>)
  /\ storage' = safeSetItem(storage, "intake_water", Txt(<<"9", "0", "0">>),
                            FALSE).store
  /\ app' = [op |-> "tracker", before |-> storage]
  /\ UNCHANGED <<isIOS, capacity, codecVars, smCall, exported, roundTrip, reads,
                 imports, sw>>

SpecImport ==
  ImportInit /\ [][importData \/ ReaderLoaded \/ ReaderFailed \/ TrackerWrite]_vars

(***************************************************************************)
(* Restore: the export of one storage is imported into another one.        *)
(***************************************************************************)
\* The reader holds the file exported from source (the full storage, an
\* empty one, the full storage with a water history of 31 dates, or habits
\* and a water history alone) on a device whose storage is empty, differs
\* from the full storage in the protein goal and the theme, or holds a water
\* goal alone; the quota leaves ample room, no room, or the room that the
\* first three fields of the file need.
RestoreInit ==
  /\ isIOS \in BOOLEAN
  /\ \E source \in
         {FullStore,
          StoreOfPairs(SnapshotPairs(NoItem, NoItem, NoItem, FALSE, FALSE)),
          [FullStore EXCEPT !["history_water"] =
             Json(HistoryOf(Ascending(31), IntakeEntry(250)))],
          StoreOfPairs(SnapshotPairs(
            Json(JsArr(<<HabitOf(<<"R", "u", "n">>, Ascending(2))>>)),
            Json(HistoryOf(<<1>>, IntakeEntry(250))), NoItem, FALSE, FALSE))},
        target \in
         {StoreOfPairs(SnapshotPairs(NoItem, NoItem, NoItem, FALSE, FALSE)),
          [FullStore EXCEPT !["goal_protein"] = Txt(<<"9">>),
                            !["app_theme"] = Txt(<<"light">>)],
          [key \in {"goal_water"} |-> Txt(<<"3", "0", "0", "0">>)]},
        room \in {"ample", "none", "first fields"} :
     \E csv \in {convertDataToCSV(source, "2024-05-31T23:00:00.000Z")},
        first \in {[key \in DOMAIN target
                            \cup (DOMAIN source
                                  \cap {"goal_water", "intake_water",
                                        "history_water"}) |->
                     IF key \in DOMAIN source
                        /\ key \in {"goal_water", "intake_water",
                                    "history_water"}
                     THEN source[key] ELSE target[key]]} :
       /\ csv.ok
       /\ storage = target
       /\ capacity = CASE room = "ample" -> PlatformSize(target) + 1000000
                       [] room = "none" -> PlatformSize(target)
                       [] OTHER -> IF PlatformSize(first) > PlatformSize(target)
                                   THEN PlatformSize(first)
                                   ELSE PlatformSize(target)
       /\ reads = {[text |-> csv.text, typeCsv |-> TRUE, nameCsv |-> TRUE,
                    source |-> source]}
  /\ smCall = NoCall
  /\ CodecIdle
  /\ exported = [status |-> "none"]
  /\ roundTrip = [status |-> "none"]
  /\ app = NoCall
  /\ imports = 1
  /\ sw = [phase |-> "none"]

SpecRestore == RestoreInit /\ [][ReaderLoaded \/ ReaderFailed]_vars

(***************************************************************************)
(* The service worker: activation and the answers to fetch events.  The    *)
(* caches are a mapping from cache names to the URLs they hold a response  *)
(* for; the Cache API itself does not fail on a lookup.                    *)
(***************************************************************************)
CACHE_NAME == "daily-tracker-v3-ios"
RUNTIME_CACHE == "daily-tracker-runtime-v3"
FONTS_CACHE == "daily-tracker-fonts-v3"

\* caches.match(url): some cache holds a response for the URL.
Match(c, url) == \E name \in DOMAIN c : url \in c[name]

\* caches.open(name) followed by cache.put(url, response): open creates the
\* cache when it is missing; a put that rejects (putOk false) is caught and
\* logged by its caller.
CachePut(c, name, url, putOk) ==
  [n \in DOMAIN c \cup {name} |->
     IF n = name
     THEN (IF name \in DOMAIN c THEN c[name] ELSE {})
            \cup (IF putOk THEN {url} ELSE {})
     ELSE c[n]]

\* Responses: of the network (status 200 when ok), of a cache, or made by
\* the worker; Thrown stands for a thrown error or a rejected promise.
NetworkResponse(request, net) ==
  [kind |-> "network", status |-> IF net = "ok" THEN 200 ELSE 404,
   of |-> request.url]

CachedResponse(url) == [kind |-> "cache", status |-> 200, of |-> url]

MadeResponse(body, status) == [kind |-> "made", status |-> status, of |-> body]

Thrown == [kind |-> "error", status |-> 0, of |-> ""]

\* networkFirstStrategy(request): [response, caches].  net is what the fetch
\* under the 3000 ms AbortController gives: "ok", "not-ok", or "failed" for
\* a rejection, the abort included.
networkFirstStrategy(request, c, net, putOk) ==
  IF net = "ok"
  THEN [response |-> NetworkResponse(request, net),
        caches |-> CachePut(c, CACHE_NAME, request.url, putOk)]
  ELSE IF Match(c, request.url)
       THEN [response |-> CachedResponse(request.url), caches |-> c]
       ELSE [response |-> Thrown, caches |-> c]

\* A cache-first strategy that treats a response that is not ok as a failure.
cacheFirstStrategyStrict(request, c, net, putOk) ==
  IF Match(c, request.url)
  THEN [response |-> CachedResponse(request.url), caches |-> c]
  ELSE IF net # "ok"
       THEN [response |-> Thrown, caches |-> c]
       ELSE [response |-> NetworkResponse(request, net),
             caches |-> CachePut(c, CACHE_NAME, request.url, putOk)]

\* cacheFirstStrategy(request): [response, caches].
cacheFirstStrategy(request, c, net, putOk) ==
  IF Match(c, request.url)
  THEN [response |-> CachedResponse(request.url), caches |-> c]
  ELSE IF net = "failed"
       THEN [response |-> Thrown, caches |-> c]
       ELSE [response |-> NetworkResponse(request, net),
             caches |-> IF net = "ok"
                        THEN CachePut(c, CACHE_NAME, request.url, putOk)
                        ELSE c]

\* handleSameOriginResource(request): [response, caches].
handleSameOriginResource(request, c, net, putOk) ==
  LET r == IF request.destination = "document"
           THEN networkFirstStrategy(request, c, net, putOk)
           ELSE cacheFirstStrategy(request, c, net, putOk)
  IN IF r.response # Thrown THEN r
     ELSE IF request.destination = "document"
          THEN [response |-> IF Match(c, "./index.html")
                             THEN CachedResponse("./index.html")
                             ELSE MadeResponse("App offline", 503),
                caches |-> c]
          ELSE [response |-> MadeResponse("Resource unavailable", 503),
                caches |-> c]

\* handleExternalResource(request): [response, caches].  net is the first
\* fetch, again the second one, made after a font that is no style sheet
\* failed.
handleExternalResource(request, c, net, again, putOk) ==
  IF request.fontsHost
  THEN IF Match(c, request.url)
       THEN [response |-> CachedResponse(request.url), caches |-> c]
       ELSE IF net = "ok"
            THEN [response |-> NetworkResponse(request, net),
                  caches |-> CachePut(c, FONTS_CACHE, request.url, putOk)]
            ELSE IF request.cssUrl
                 THEN [response |-> MadeResponse("Fallback fonts", 200),
                       caches |-> c]
                 ELSE [response |-> IF again = "failed"
                                    THEN MadeResponse("Resource unavailable", 503)
                                    ELSE NetworkResponse(request, again),
                       caches |-> c]
  ELSE [response |-> IF net = "failed" THEN Thrown
                     ELSE NetworkResponse(request, net),
        caches |-> c]

\* The worker is installed.  Any of the three current caches and of two
\* caches of an earlier version exist; the core cache holds nothing, the
\* start page, or the start page, its address and a script.
WorkerInit ==
  /\ \E names \in SUBSET {CACHE_NAME, RUNTIME_CACHE, FONTS_CACHE,
                          "daily-tracker-v2-ios", "daily-tracker-runtime-v2"},
        core \in {{}, {"./index.html"}, {"./", "./index.html", "./core/ui.js"}} :
       /\ (CACHE_NAME \notin names => core = {})
       /\ sw = [phase |-> "installed",
                caches |-> [n \in names |->
                              CASE n = CACHE_NAME -> core
                                [] n = "daily-tracker-v2-ios" ->
                                     {"./index.html", "./core/ui.js"}
                                [] OTHER -> {}],
                found |-> {}, pc |-> "idle"]
  /\ storage = <<>> /\ isIOS = FALSE /\ capacity = 0 /\ smCall = NoCall
  /\ CodecIdle
  /\ exported = [status |-> "none"]
  /\ roundTrip = [status |-> "none"]
  /\ reads = {} /\ app = NoCall /\ imports = 0

\* An activation that keeps the core and the fonts cache alone.
activateKeepingTwo ==
  /\ sw.phase = "installed"
  /\ sw' = [sw EXCEPT
              !.phase = "active",
              !.found = DOMAIN sw.caches,
              !.caches = [n \in {m \in DOMAIN sw.caches :
                                   ~(m # CACHE_NAME /\ m # FONTS_CACHE)} |->
                            sw.caches[n]]]
  /\ UNCHANGED <<storeVars, codecVars, smCall, exported, roundTrip, reads, app,
                 imports>>

\* The activate listener: caches.delete(cacheName) for every name of
\* caches.keys() that is none of the three, and clients.claim().
activate ==
  /\ sw.phase = "installed"
  /\ sw' = [sw EXCEPT
              !.phase = "active",
              !.found = DOMAIN sw.caches,
              !.caches = [n \in {m \in DOMAIN sw.caches :
                                   ~(/\ m # CACHE_NAME
                                     /\ m # RUNTIME_CACHE
                                     /\ m # FONTS_CACHE)} |->
                            sw.caches[n]]]
  /\ UNCHANGED <<storeVars, codecVars, smCall, exported, roundTrip, reads, app,
                 imports>>

\* The fetch listener, up to its return: a request that is no GET is left
\* to the browser, any other one is answered with the promise of a handler.
\* Requests are for the address of the application, its start page, a
\* script, a font style sheet, a font file and a script of another host.
FetchEvent ==
  /\ sw.phase = "active"
  /\ sw.pc # "pending"
  /\ \E method \in {"GET", "POST"},
        target \in
          {[url |-> "./", destination |-> "document", sameOrigin |-> TRUE,
            fontsHost |-> FALSE, cssUrl |-> FALSE],
           [url |-> "./index.html", destination |-> "document",
            sameOrigin |-> TRUE, fontsHost |-> FALSE, cssUrl |-> FALSE],
           [url |-> "./core/ui.js", destination |-> "script",
            sameOrigin |-> TRUE, fontsHost |-> FALSE, cssUrl |-> FALSE],
           [url |-> "https://fonts.googleapis.com/inter.css",
            destination |-> "style", sameOrigin |-> FALSE,
            fontsHost |-> TRUE, cssUrl |-> TRUE],
           [url |-> "https://fonts.gstatic.com/inter.woff2",
            destination |-> "font", sameOrigin |-> FALSE,
            fontsHost |-> TRUE, cssUrl |-> FALSE],
           [url |-> "https://cdn.example.com/lib.js",
            destination |-> "script", sameOrigin |-> FALSE,
            fontsHost |-> FALSE, cssUrl |-> FALSE]} :
       sw' = [phase |-> "active", caches |-> sw.caches, found |-> sw.found,
              pc |-> IF method # "GET" THEN "passed" ELSE "pending",
              method |-> method, request |-> target]
  /\ UNCHANGED <<storeVars, codecVars, smCall, exported, roundTrip, reads, app,
                 imports>>

\* The promise handed to event.respondWith settles: the network gave net
\* (and again), the cache took the response or not.
Respond ==
  /\ sw.phase = "active"
  /\ sw.pc = "pending"
  /\ \E net \in {"ok", "not-ok", "failed"},
        again \in {"ok", "not-ok", "failed"}, putOk \in BOOLEAN :
     \E r \in {IF sw.request.sameOrigin
               THEN handleSameOriginResource(sw.request, sw.caches, net, putOk)
               ELSE handleExternalResource(sw.request, sw.caches, net, again,
                                           putOk)} :
       sw' = [phase |-> "active", caches |-> r.caches, found |-> sw.found,
              pc |-> "answered", method |-> sw.method, request |-> sw.request,
              response |-> r.response, net |-> net, at |-> sw.caches]
  /\ UNCHANGED <<storeVars, codecVars, smCall, exported, roundTrip, reads, app,
                 imports>>

\* The promise of a handler settles once the fetch it awaits does, which the
\* abort timer of the document fetch and the network stack see to.
SpecWorker ==
  /\ WorkerInit
  /\ [][activate \/ FetchEvent \/ Respond]_vars
  /\ WF_vars(Respond)

(***************************************************************************)
(* Properties of the cell codec (SpecCodec).                               *)
(***************************************************************************)
NeedsQuoting(s) == \E i \in 1..Len(s) : s[i] \in {Comma, Quote, LF}

\* The double quotes among the first i - 1 characters of s.
QuotesBefore(s, i) == Cardinality({j \in 1..(i - 1) : s[j] = Quote})

\* out is s between double quotes with each double quote of s doubled.
WrappedForm(s, out) ==
  /\ Len(out) = Len(s) + QuotesBefore(s, Len(s) + 1) + 2
  /\ out[1] = Quote /\ out[Len(out)] = Quote
  /\ \A i \in 1..Len(s) :
       /\ out[1 + i + QuotesBefore(s, i)] = s[i]
       /\ s[i] = Quote => out[2 + i + QuotesBefore(s, i)] = Quote

\* C9: an escaped cell is its text between double quotes with every inner
\* double quote doubled exactly when the text holds a comma, a double quote
\* or a newline; otherwise it is the text itself; null and undefined give
\* the empty cell.
C9_EscapingLaw ==
  cPc \in {"escaped", "decoded"} =>
    IF cIn.t \in {"null", "undefined"} THEN cOut = <<>>
    ELSE LET s == JsString(cIn) IN
         IF NeedsQuoting(s) THEN WrappedForm(s, cOut) ELSE cOut = s

C9_Witness ==
  /\ cPc = "escaped"
  /\ cIn = JsStr(<<"a", Quote, LF>>)
  /\ cOut = <<Quote, "a", Quote, Quote, LF, Quote>>

\* C10: a string holding a comma, a double quote and a newline, escaped and
\* then tokenized by parseCSVRow, gives exactly one field, the string itself.
C10_EscapeThenParse ==
  (/\ cPc = "decoded"
   /\ cIn.t = "string"
   /\ Includes(cIn.s, Comma) /\ Includes(cIn.s, Quote) /\ Includes(cIn.s, LF))
  => cFields = <<cIn.s>>

C10_Witness ==
  /\ cPc = "decoded"
  /\ cIn = JsStr(<<Quote, Comma, LF, Quote>>)
  /\ cOut = <<Quote, Quote, Quote, Comma, LF, Quote, Quote, Quote>>
  /\ cFields = <<cIn.s>>

(***************************************************************************)
(* Properties of the storage manager (SpecStorage).                        *)
(***************************************************************************)
SetItemEvents == {"setItem:ok", "setItem:quota", "setItem:error"}

\* The positions of the log at which setItem was attempted.
Attempts(log) == {i \in 1..Len(log) : log[i] \in SetItemEvents}

Logged(log, event) == \E i \in 1..Len(log) : log[i] = event

QuotaFailedCall ==
  smCall.op = "safeSetItem" /\ smCall.log[1] = "setItem:quota"

\* C5 as stated: after a quota failure of the first write, cleanupOldData
\* runs and the write is attempted exactly once more; false is returned and
\* the storage-full condition signalled exactly when that retry fails.
C5_AlwaysRetriesOnce ==
  QuotaFailedCall =>
    /\ smCall.log[2] \in {"cleanup:true", "cleanup:false"}
    /\ Cardinality(Attempts(smCall.log)) = 2
    /\ smCall.ret = (smCall.log[3] = "setItem:ok")
    /\ Logged(smCall.log, "handleStorageFull") = ~smCall.ret

\* C5 amended: after a quota failure of the first write, cleanupOldData
\* runs; the write is attempted exactly once more only when the cleanup
\* trimmed something, and then true is returned exactly when the retry
\* succeeds; when the cleanup trimmed nothing there is no retry.  False is
\* returned together with the storage-full condition exactly when the
\* cleanup trimmed nothing or the retry failed.
C5_RetriesOnceAfterTrim ==
  QuotaFailedCall =>
    /\ smCall.log[2] = (IF cleanupOldData(smCall.before).ret
                        THEN "cleanup:true" ELSE "cleanup:false")
    /\ smCall.log[2] = "cleanup:true" =>
         /\ Attempts(smCall.log) = {1, 3}
         /\ smCall.ret = (smCall.log[3] = "setItem:ok")
         /\ smCall.ret =>
              storage = Put(cleanupOldData(smCall.before).store,
                            smCall.key, smCall.value)
    /\ smCall.log[2] = "cleanup:false" =>
         /\ Attempts(smCall.log) = {1}
         /\ ~smCall.ret
    /\ Logged(smCall.log, "handleStorageFull") = ~smCall.ret

C5_Witness ==
  /\ QuotaFailedCall
  /\ smCall.log = <<"setItem:quota", "cleanup:true", "setItem:ok",
                    "toast:cleaned-up">>
  /\ smCall.ret
  /\ storage # smCall.before

\* C6: safeSetItem never drops data silently: when it returns true the
\* storage holds the value under the key; it returns false exactly when its
\* last write attempt failed, and then the failure is signalled.
C6_NeverSilentlyDrops ==
  smCall.op = "safeSetItem" =>
    LET last == CHOOSE i \in Attempts(smCall.log) :
                  \A j \in Attempts(smCall.log) : j <= i
    IN /\ smCall.ret = (smCall.log[last] = "setItem:ok")
       /\ smCall.ret => GetItem(storage, smCall.key) = smCall.value
       /\ ~smCall.ret =>
            /\ Logged(smCall.log, "handleStorageFull")
                  \/ Logged(smCall.log, "toast:error-saving")
            /\ GetItem(storage, smCall.key)
                  = GetItem(IF QuotaFailedCall
                            THEN cleanupOldData(smCall.before).store
                            ELSE smCall.before, smCall.key)

C6_Witness ==
  /\ smCall.op = "safeSetItem"
  /\ smCall.log = <<"setItem:quota", "cleanup:true", "setItem:quota",
                    "handleStorageFull">>
  /\ ~smCall.ret
  /\ GetItem(storage, smCall.key) # smCall.value

\* The dates a stored history holds (none when it is absent, unparseable
\* or no mapping).
DateKeysOf(v) == IF v.t = "object" THEN {v.m[i].k : i \in 1..Len(v.m)} ELSE {}

StoredTree(store, key) ==
  LET p == JsonParse(GetItem(store, key)) IN IF p.ok THEN p.v ELSE JsNull

\* C7: after cleanupOldData returns, history_water, history_protein and
\* workout_history each hold at most 30 distinct dates on the constrained
\* tier (90 on the standard tier), and so does the history of every habit
\* of habits_data.
C7_CleanupBound ==
  smCall.op = "cleanupOldData" =>
    /\ \A key \in {"history_water", "history_protein", "workout_history"} :
         Cardinality(DateKeysOf(StoredTree(storage, key)))
           <= (IF isIOS THEN 30 ELSE 90)
    /\ LET habits == StoredTree(storage, "habits_data") IN
       habits.t = "array" =>
         \A i \in 1..Len(habits.a) :
           Cardinality(DateKeysOf(GetProp(habits.a[i], "history")))
             <= (IF isIOS THEN 30 ELSE 90)

C7_Witness ==
  /\ smCall.op = "cleanupOldData"
  /\ isIOS
  /\ smCall.ret
  /\ Cardinality(DateKeysOf(StoredTree(smCall.before, "history_protein"))) = 32
  /\ Cardinality(DateKeysOf(StoredTree(storage, "history_protein"))) = 30
  /\ StoredTree(smCall.before, "habits_data").t = "array"
  /\ Cardinality(DateKeysOf(GetProp(StoredTree(smCall.before, "habits_data").a[2],
                                    "history"))) = 31
  /\ Cardinality(DateKeysOf(GetProp(StoredTree(storage, "habits_data").a[2],
                                    "history"))) = 30

(***************************************************************************)
(* Properties of the quota estimate (SpecQuota).                           *)
(***************************************************************************)
\* Ten times quota * threshold of the active tier: 0.7 of 2 MiB, 0.9 of 5 MiB.
BoundaryTenths == IF isIOS THEN 14680064 ELSE 47185920

\* The characters of the keys and values of the padded namespace.
NamespaceSize ==
  Len(PadKey) + storage[PadKey].n

\* C8 as stated: isNearQuota is false when the usage is below quota *
\* threshold and true when it is at or above it.
C8_TrueAtBoundary ==
  smCall.op = "isNearQuota" =>
    smCall.ret = (NamespaceSize * 10 >= BoundaryTenths)

\* C8 amended: isNearQuota is true exactly when the usage is strictly above
\* quota * threshold; at the boundary itself and below it, it is false.
C8_TrueAboveBoundary ==
  smCall.op = "isNearQuota" =>
    smCall.ret = (NamespaceSize * 10 > BoundaryTenths)

C8_Witness ==
  /\ smCall.op = "isNearQuota"
  /\ ~isIOS
  /\ NamespaceSize = 4718592
  /\ smCall.ret = FALSE

(***************************************************************************)
(* Properties of export and re-import (SpecExport).                        *)
(***************************************************************************)
\* A text of the parsed snapshot against the stored one; an absent key reads
\* back as null or as the empty text.
SameText(value, item) ==
  IF item = NoItem THEN value \in {JsNull, JsStr(<<>>)}
  ELSE value = JsStr(ItemText(item))

\* A JSON text of the parsed snapshot against the stored one; an absent key
\* reads back as the empty mapping or sequence.
SameTree(value, item, dflt) ==
  /\ value.k = "json"
  /\ value.v = (IF item = NoItem THEN dflt ELSE item.v)

\* The parsed snapshot d holds what store holds.
SameSnapshot(d, store) ==
  /\ SameText(d.water.goal, GetItem(store, "goal_water"))
  /\ SameText(d.water.intake, GetItem(store, "intake_water"))
  /\ SameTree(d.water.history, GetItem(store, "history_water"), JsObj(<<>>))
  /\ SameText(d.protein.goal, GetItem(store, "goal_protein"))
  /\ SameText(d.protein.intake, GetItem(store, "intake_protein"))
  /\ SameTree(d.protein.history, GetItem(store, "history_protein"), JsObj(<<>>))
  /\ SameTree(d.workout.state, GetItem(store, "workout_state"), JsObj(<<>>))
  /\ SameTree(d.workout.count, GetItem(store, "workout_count"), JsObj(<<>>))
  /\ SameTree(d.workout.history, GetItem(store, "workout_history"), JsObj(<<>>))
  /\ SameTree(d.habits.data, GetItem(store, "habits_data"), JsArr(<<>>))
  /\ SameText(d.settings.theme, GetItem(store, "app_theme"))
  /\ SameText(d.settings.reminder, GetItem(store, "global_reminder"))

\* Some habit of the stored snapshot has a line break in its name.
LineBreakInName(store) ==
  LET habits == StoredTree(store, "habits_data") IN
  /\ habits.t = "array"
  /\ \E i \in 1..Len(habits.a) : Includes(GetProp(habits.a[i], "name").s, LF)

\* C1: the snapshot parseCSVData reads from the text convertDataToCSV wrote
\* equals the stored snapshot (its texts hold no line break, the limitation
\* the format documents), whatever the names of its habits are.
C1_RoundTrip ==
  (roundTrip.status # "none" /\ ~LineBreakInName(storage)) =>
    /\ roundTrip.status = "ok"
    /\ SameSnapshot(roundTrip.data, storage)

\* A habit named by one double quote is read back named by two.
C1_Witness ==
  /\ roundTrip.status = "ok"
  /\ StoredTree(storage, "habits_data").t = "array"
  /\ GetProp(StoredTree(storage, "habits_data").a[1], "name").s = <<Quote>>
  /\ GetProp(roundTrip.data.habits.data.v.a[1], "name").s = <<Quote, Quote>>

\* C2: with an unparseable history_protein the export still succeeds, and its
\* text is the one of the same storage without history_protein.
C2_ExportSurvivesCorruptKey ==
  (exported.status # "none" /\ GetItem(storage, "history_protein") = Corrupt) =>
    /\ exported.status = "ok"
    /\ \E now \in Clock :
         exported.text =
           convertDataToCSV([key \in DOMAIN storage \ {"history_protein"} |->
                               storage[key]], now).text

\* The export of a storage whose history_protein is unparseable ends in the
\* error message, with no file written.
C2_Witness ==
  /\ GetItem(storage, "history_protein") = Corrupt
  /\ exported.status = "error"

(***************************************************************************)
(* Properties of import (SpecImport).                                      *)
(***************************************************************************)
\* performDataImport ran in the last step.
WritePhaseRan ==
  app.op = "onload" /\ app.outcome \in {"imported", "import-failed"}

\* C3: a failed write of any field, theme and reminder included, is the last
\* write of the import, which returns false and reports that field.
C3_FailedWriteAborts ==
  WritePhaseRan =>
    \A i \in 1..Len(app.writes) :
      ~app.writes[i].ret =>
        /\ app.outcome = "import-failed"
        /\ i = Len(app.writes)
        /\ app.error = app.writes[i].field

\* The write of the theme failed and the import went on to return true.
C3_Witness ==
  /\ WritePhaseRan
  /\ app.outcome = "imported"
  /\ \E i \in 1..Len(app.writes) :
       app.writes[i].key = "app_theme" /\ ~app.writes[i].ret

\* C4: an import rejected for its size or its type, failing in parseCSVData,
\* exceeding the size estimate or declined at the prompt leaves storage as
\* its handler found it.
C4_RejectedImportLeavesStorage ==
  (\/ /\ app.op = "importData"
      /\ app.outcome \in {"file-too-large", "wrong-type"}
   \/ /\ app.op = "onload"
      /\ app.outcome \in {"parse-error", "estimate-too-large"} \/ ~app.answer)
    => storage = app.before

\* The user declined the import of a file that would have changed storage.
C4_Witness ==
  /\ app.op = "onload"
  /\ app.outcome = "declined"
  /\ onload(storage, app.file.text, "", TRUE).store # storage


(***************************************************************************)
(* Properties of the row codec (SpecRow).                                  *)
(***************************************************************************)
\* C11: parseCSVRow applied to the comma-joined escaped cells of a row of
\* twelve cells without a line break returns exactly twelve fields, each
\* equal to the text of its cell.
C11_RowRoundTrip ==
  cPc = "decoded" =>
    /\ Len(cFields) = Len(cIn)
    /\ \A i \in 1..Len(cIn) : cFields[i] = cIn[i].s

\* A row whose first cell is one double quote comes back with two.
C11_Witness ==
  /\ cPc = "decoded"
  /\ Len(cIn) = 12
  /\ cIn[1].s = <<Quote>>
  /\ Len(cFields) = 12
  /\ cFields[1] = <<Quote, Quote>>

(***************************************************************************)
(* Properties of the parser on files of rows in any order (SpecParse).     *)
(***************************************************************************)
\* The positions of the habit rows with key k, and of the habit_history
\* rows of the habit k, in the file.
HabitRowsOf(k) ==
  {i \in 1..Len(exported.rows) :
     /\ exported.rows[i][1].s = <<"habit">>
     /\ exported.rows[i][2].s = IntToText(k)}

HistoryRowsOf(k) ==
  {i \in 1..Len(exported.rows) :
     /\ exported.rows[i][1].s = <<"habit_history">>
     /\ exported.rows[i][2].s = IntToText(k) \o <<"_">> \o exported.rows[i][4].s}

\* The habit sequence parseCSVData returned, read back from its JSON text.
ParsedHabits == roundTrip.data.habits.data.v.a

EmptyHistory == Member(<<"history">>, JsObj(<<>>))

\* C12: when the only habit row of a file has key 5 (and no habit_history
\* row is present), the parsed habit sequence has length 6, the indices 0 to
\* 4 are placeholders {history: {}}, and index 5 carries the name and the
\* color of the row with an empty history.
C12_SparsePadding ==
  (/\ roundTrip.status = "ok"
   /\ HabitRowsOf(5) # {}
   /\ HabitRowsOf(0) = {} /\ HistoryRowsOf(0) = {} /\ HistoryRowsOf(5) = {})
  => LET row == exported.rows[CHOOSE i \in HabitRowsOf(5) : TRUE] IN
     /\ Len(ParsedHabits) = 6
     /\ \A i \in 1..5 : ParsedHabits[i] = JsObj(<<EmptyHistory>>)
     /\ ParsedHabits[6] = JsObj(<<Member(<<"name">>, row[9]),
                                  Member(<<"color">>, row[10]),
                                  EmptyHistory>>)

C12_Witness ==
  /\ roundTrip.status = "ok"
  /\ Len(exported.rows) = 1
  /\ HabitRowsOf(5) = {1}
  /\ Len(ParsedHabits) = 6
  /\ GetProp(ParsedHabits[6], "name") = JsStr(<<"R", "e", "a", "d">>)
  /\ GetProp(ParsedHabits[1], "history") = JsObj(<<>>)

\* The index of the last habit or habit_history row of the file, -1 when
\* it has none.
LastHabitIndex ==
  LET used == {k \in 0..5 : HabitRowsOf(k) \cup HistoryRowsOf(k) # {}} IN
  IF used = {} THEN 0 - 1 ELSE CHOOSE k \in used : \A j \in used : j <= k

\* The last element of a non-empty set of positions.
LastOf(positions) == CHOOSE i \in positions : \A j \in positions : j <= i

\* habit is what the rows of the habit k describe: the name and the color
\* of its habit row (none when it has no habit row), and a history that maps
\* exactly the dates of its habit_history rows, each to the value of the last
\* row of that date.
DescribedBy(habit, k) ==
  LET history == GetProp(habit, "history") IN
  /\ IF HabitRowsOf(k) = {}
     THEN GetProp(habit, "name") = JsUndefined
          /\ GetProp(habit, "color") = JsUndefined
     ELSE GetProp(habit, "name") = exported.rows[LastOf(HabitRowsOf(k))][9]
          /\ GetProp(habit, "color") = exported.rows[LastOf(HabitRowsOf(k))][10]
  /\ history.t = "object"
  /\ {history.m[i].k : i \in 1..Len(history.m)}
       = {exported.rows[i][4].s : i \in HistoryRowsOf(k)}
  /\ Len(history.m) = Cardinality({exported.rows[i][4].s : i \in HistoryRowsOf(k)})
  /\ \A i \in HistoryRowsOf(k) :
       FindMember(history.m, exported.rows[i][4].s)
         = exported.rows[LastOf({j \in HistoryRowsOf(k) :
                                   exported.rows[j][4] = exported.rows[i][4]})][3]

\* C13: whatever the order of the habit and habit_history rows, the habit
\* parsed at index i has the name and color of the habit row with key i and
\* a history holding every habit_history row of index i; rows of other
\* indices change nothing at i, an index without rows is a placeholder, and
\* a habit row that comes after its history rows keeps that history.
C13_HabitsByIndex ==
  roundTrip.status = "ok" =>
    /\ Len(ParsedHabits) = LastHabitIndex + 1
    /\ \A k \in 0..LastHabitIndex : DescribedBy(ParsedHabits[k + 1], k)

\* The history row of habit 5 comes first, then the habit row of 0, then
\* the habit row of 5: habit 5 has its name and its history.
C13_Witness ==
  /\ roundTrip.status = "ok"
  /\ Len(exported.rows) = 3
  /\ HistoryRowsOf(5) = {1} /\ HabitRowsOf(0) = {2} /\ HabitRowsOf(5) = {3}
  /\ Len(ParsedHabits) = 6
  /\ GetProp(ParsedHabits[1], "name") = JsStr(<<"R", "u", "n">>)
  /\ GetProp(ParsedHabits[6], "name") = JsStr(<<"R", "e", "a", "d">>)
  /\ GetProp(GetProp(ParsedHabits[6], "history"), "completed") = JsUndefined
  /\ FindMember(GetProp(ParsedHabits[6], "history").m, DateKey(1))
       = JsStr(<<"completed">>)

\* C14: a file without data rows - the header line alone, or the header
\* line followed only by a line terminator - is rejected by parseCSVData
\* with an error.
C14_NoDataRowsRejected ==
  (roundTrip.status # "none" /\ exported.rows = <<>>)
    => roundTrip.status = "error"

\* The header line and a line terminator are accepted as an empty snapshot.
C14_Witness ==
  /\ exported.rows = <<>>
  /\ exported.ending = <<LF>>
  /\ roundTrip.status = "ok"
  /\ roundTrip.data.water.history.v = JsObj(<<>>)

\* C15: the file made of the header and the one row meta,version,3.0 is
\* accepted, and the snapshot it gives is empty but for the version: null
\* goals, intakes, theme and reminder, empty histories, empty workout maps
\* and an empty habit sequence.
C15_VersionOnlyFile ==
  (/\ roundTrip.status # "none"
   /\ Len(exported.rows) = 1
   /\ exported.rows[1][1].s = <<"meta">>)
  => /\ roundTrip.status = "ok"
     /\ roundTrip.data.version = JsStr(<<"3", ".", "0">>)
     /\ \E now \in Clock : roundTrip.data.exportDate = JsStr(<<now>>)
     /\ \A tracker \in {"water", "protein"} :
          /\ roundTrip.data[tracker].goal = JsNull
          /\ roundTrip.data[tracker].intake = JsNull
          /\ roundTrip.data[tracker].history.v = JsObj(<<>>)
     /\ \A part \in {"state", "count", "history"} :
          roundTrip.data.workout[part].v = JsObj(<<>>)
     /\ roundTrip.data.habits.data.v = JsArr(<<>>)
     /\ roundTrip.data.settings = [theme |-> JsNull, reminder |-> JsNull]

C15_Witness ==
  /\ roundTrip.status = "ok"
  /\ Len(exported.rows) = 1
  /\ exported.rows[1][2].s = <<"version">>
  /\ exported.rows[1][3].s = <<"3", ".", "0">>
  /\ exported.ending = <<>>
  /\ roundTrip.data.version = JsStr(<<"3", ".", "0">>)
  /\ ParsedHabits = <<>>

(***************************************************************************)
(* Properties of imports of files of rows (SpecImport).                    *)
(***************************************************************************)
\* The entries of the rows of one kind and date of a file, in row order.
BucketOf(rows, kind, date) ==
  LET at == {i \in 1..Len(rows) : rows[i][1].s = <<kind>> /\ rows[i][4].s = date}
  IN [j \in 1..Cardinality(at) |->
        LET i == CHOOSE p \in at : Cardinality({q \in at : q < p}) = j - 1 IN
        JsObj(<<Member(<<"amount">>, JsNum(TextToNat(rows[i][5].s))),
                Member(<<"timestamp">>, rows[i][6])>>)]

\* history maps exactly the dates of the rows of the kind, each to the
\* entries of its rows in row order.
HistoryAsRows(rows, kind, history) ==
  LET dates == {rows[i][4].s : i \in {j \in 1..Len(rows) : rows[j][1].s = <<kind>>}}
  IN /\ history.t = "object"
     /\ Len(history.m) = Cardinality(dates)
     /\ \A i \in 1..Len(history.m) :
          /\ history.m[i].k \in dates
          /\ history.m[i].v = JsArr(BucketOf(rows, kind, history.m[i].k))

\* C16: after the import of a file whose rows are the water goal and
\* water_history / protein_history rows, goal_water holds the text of the
\* goal cell and each history key holds the mapping from each date to the
\* entries {amount, timestamp} of its rows, in row order.
C16_ImportedWaterRows ==
  (/\ app.op = "onload"
   /\ app.outcome = "imported"
   /\ "rows" \in DOMAIN app.file)
  => /\ GetItem(storage, "goal_water") = Txt(app.file.rows[1][3].s)
     /\ GetItem(storage, "history_water").k = "json"
     /\ HistoryAsRows(app.file.rows, "water_history",
                      GetItem(storage, "history_water").v)
     /\ GetItem(storage, "history_protein").k = "json"
     /\ HistoryAsRows(app.file.rows, "protein_history",
                      GetItem(storage, "history_protein").v)

\* The file water,goal,2000 and one water_history row of 2024-01-01 was
\* imported over a storage whose water history was another one.
C16_Witness ==
  /\ app.op = "onload"
  /\ app.outcome = "imported"
  /\ "rows" \in DOMAIN app.file
  /\ Len(app.file.rows) = 2
  /\ GetItem(app.before, "history_water") # GetItem(storage, "history_water")
  /\ GetItem(storage, "goal_water") = Txt(<<"2", "0", "0", "0">>)
  /\ GetItem(storage, "history_water").v
       = JsObj(<<Member(<<"2", "0", "2", "4", "-", "0", "1", "-", "0", "1">>,
                        JsArr(<<JsObj(<<Member(<<"amount">>, JsNum(250)),
                                        Member(<<"timestamp">>,
                                               JsStr(<<"2024-01-01T08:00:00Z">>))>>)>>))>>)

\* C17: the backup of an import holds every key/value pair storage held
\* when its handler began, and storage was still in that state at the first
\* write of the import.
C17_BackupBeforeWrites ==
  WritePhaseRan =>
    /\ DOMAIN app.backup = DOMAIN app.before
    /\ \A key \in DOMAIN app.before : app.backup[key] = app.before[key]
    /\ app.writes # <<>> => app.writes[1].before = app.backup

\* An import changed storage, a tracker having written since the file was
\* chosen; its backup is the storage it found, not the storage it left.
C17_Witness ==
  /\ WritePhaseRan
  /\ app.writes # <<>>
  /\ storage # app.before
  /\ app.backup = app.before
  /\ GetItem(app.backup, "intake_water") = Txt(<<"9", "0", "0">>)

\* The value an import holds for a key after its write of it: the text of a
\* cell, or the JSON text parseCSVData built.
WrittenValue(write) ==
  IF "t" \in DOMAIN write.value THEN Txt(write.value.s) ELSE write.value

\* What a failed import leaves under a key, cleanupOldData apart: the value
\* of its write when the key was written before the failing write, else the
\* value the handler found.
LeftUnder(key) ==
  LET done == {i \in 1..(Len(app.writes) - 1) : app.writes[i].key = key} IN
  IF done # {} THEN WrittenValue(app.writes[CHOOSE i \in done : TRUE])
  ELSE GetItem(app.before, key)

\* C18 as stated: after an import that failed at a write, the fields written
\* before it hold their imported values and every other key holds its value
\* from before the import.
C18_MixedStateExact ==
  (app.op = "onload" /\ app.outcome = "import-failed") =>
    \A key \in DOMAIN storage \cup DOMAIN app.before :
      GetItem(storage, key) = LeftUnder(key)

\* C18 amended: after an import that failed at a write, every key holds the
\* value imported for it when it was written before the failing write and
\* else its value from before the import - or, for a history key, that
\* value as cleanupOldData trims it; nothing is restored from the backup.
C18_MixedStateUpToCleanup ==
  (app.op = "onload" /\ app.outcome = "import-failed") =>
    \A key \in DOMAIN storage \cup DOMAIN app.before :
      \/ GetItem(storage, key) = LeftUnder(key)
      \/ /\ \E i \in 1..Len(HistoryKeys) : HistoryKeys[i] = key
         /\ LeftUnder(key) # NoItem
         /\ GetItem(storage, key)
              = cleanupOldData([k \in {key} |-> LeftUnder(key)]).store[key]

\* A failed import left the intake it had written, which differs from the
\* one it found, and the habits it never came to write; storage is not the
\* backup.
C18_Witness ==
  /\ app.op = "onload"
  /\ app.outcome = "import-failed"
  /\ Len(app.writes) > 1
  /\ storage # app.backup
  /\ GetItem(storage, "intake_water") = WrittenValue(app.writes[2])
  /\ GetItem(storage, "intake_water") # GetItem(app.before, "intake_water")
  /\ GetItem(storage, "habits_data") = GetItem(app.before, "habits_data")
  /\ GetItem(storage, "history_water") = GetItem(app.before, "history_water")

\* C19: an import writes to storage only when the user confirmed it and its
\* file is within the size limit, has the type or the name of a CSV file,
\* parses, and has a size estimate within nine tenths of the limit.
C19_WritesOnlyAfterChecks ==
  (app.op = "onload" /\ (app.writes # <<>> \/ storage # app.before)) =>
    /\ app.answer
    /\ TextLen(app.file.text) <= MaxSize
    /\ app.file.typeCsv \/ app.file.nameCsv
    /\ \E p \in {parseCSVData(app.file.text, "2024-06-03T08:00:00.000Z")} :
         p.ok /\ ImportSize(p.data) * 10 <= MaxSize * 9

\* A confirmed import of a file named .csv, of another type, wrote to
\* storage.
C19_Witness ==
  /\ app.op = "onload"
  /\ app.answer
  /\ ~app.file.typeCsv /\ app.file.nameCsv
  /\ app.writes # <<>>
  /\ storage # app.before

(***************************************************************************)
(* Properties of the usage estimate (SpecQuota).                           *)
(***************************************************************************)
\* C20: getUsage() is the sum, over every key of storage, of the length of
\* the key and the length of its value, keys whose value is the empty
\* string included.
C20_UsageCountsEveryKey ==
  smCall.op = "getUsage" =>
    smCall.ret = NamespaceSize
                   + (IF "draft" \in DOMAIN storage THEN Len("draft") ELSE 0)

\* getUsage left out the key whose value is empty.
C20_Witness ==
  /\ smCall.op = "getUsage"
  /\ "draft" \in DOMAIN storage
  /\ storage["draft"] = Txt(<<>>)
  /\ smCall.ret = NamespaceSize

(***************************************************************************)
(* Properties of cleanupOldData (SpecStorage).                             *)
(***************************************************************************)
\* The retention limit N of the tier.
RetentionLimit == IF isIOS THEN 30 ELSE 90

\* The date-bucketed mappings stored under a history-bearing key: the value
\* itself, or the history of each habit of habits_data.
MappingsOf(store, key) ==
  LET tree == StoredTree(store, key) IN
  IF key = "habits_data" /\ tree.t = "array"
  THEN [i \in 1..Len(tree.a) |-> GetProp(tree.a[i], "history")]
  ELSE <<tree>>

\* Some mapping under the key holds more dates than the limit.
ExceedsLimit(store, key) ==
  \E i \in 1..Len(MappingsOf(store, key)) :
    Cardinality(DateKeysOf(MappingsOf(store, key)[i])) > RetentionLimit

\* C21: cleanupOldData() calls setItem only for a history-bearing key one of
\* whose date mappings held more dates than the retention limit, and leaves
\* every key that is not history-bearing as it was.
C21_RewritesOnlyTrimmedKeys ==
  smCall.op = "cleanupOldData" =>
    /\ \A i \in 1..Len(smCall.written) :
         ExceedsLimit(smCall.before, smCall.written[i])
    /\ \A key \in DOMAIN smCall.before :
         (\A i \in 1..Len(HistoryKeys) : HistoryKeys[i] # key) =>
           GetItem(storage, key) = GetItem(smCall.before, key)

\* history_water was trimmed, and habits_data, whose habits hold two dates
\* each, was written as well.
C21_Witness ==
  /\ smCall.op = "cleanupOldData"
  /\ smCall.written = <<"history_water", "habits_data">>
  /\ ExceedsLimit(smCall.before, "history_water")
  /\ ~ExceedsLimit(smCall.before, "habits_data")
  /\ Len(MappingsOf(smCall.before, "habits_data")) = 2
  /\ GetItem(storage, "goal_water") = GetItem(smCall.before, "goal_water")

\* The stored mappings hold the first dates of the calendar, DateKey(1) to
\* DateKey(n), whose lexicographic order is the order of their numbers.
LatestDates(count, keep) == {DateKey(n) : n \in (count - keep + 1)..count}

FailsToParse(store, key) ==
  TruthyText(GetItem(store, key)) /\ ~JsonParse(GetItem(store, key)).ok

\* C23: cleanupOldData leaves a history-bearing key whose value fails to
\* parse as it was, still trims every other history-bearing key that
\* exceeded the limit, and returns a boolean, which is true exactly when
\* some key was trimmed and stored.
C23_SkipsUnparsableKey ==
  smCall.op = "cleanupOldData" =>
    /\ \A k \in 1..Len(HistoryKeys) :
         IF FailsToParse(smCall.before, HistoryKeys[k])
         THEN GetItem(storage, HistoryKeys[k])
                = GetItem(smCall.before, HistoryKeys[k])
         ELSE ExceedsLimit(smCall.before, HistoryKeys[k]) =>
                /\ ~ExceedsLimit(storage, HistoryKeys[k])
                /\ GetItem(storage, HistoryKeys[k])
                     # GetItem(smCall.before, HistoryKeys[k])
    /\ smCall.ret \in BOOLEAN
    /\ smCall.ret <=>
         \E k \in 1..Len(HistoryKeys) :
           /\ ExceedsLimit(smCall.before, HistoryKeys[k])
           /\ ~ExceedsLimit(storage, HistoryKeys[k])

\* history_water failed to parse and stayed, the habits stored after it
\* were trimmed, and the call returned true.
C23_Witness ==
  /\ smCall.op = "cleanupOldData"
  /\ FailsToParse(smCall.before, "history_water")
  /\ GetItem(storage, "history_water") = Corrupt
  /\ ExceedsLimit(smCall.before, "habits_data")
  /\ ~ExceedsLimit(storage, "habits_data")
  /\ smCall.ret

(***************************************************************************)
(* Properties of the storage manager as a whole (SpecManager).             *)
(***************************************************************************)
\* C24: every call of isAvailable, getUsage, getRemainingSpace, isNearQuota,
\* cleanupOldData and safeSetItem returns to its caller - a boolean, or a
\* number for getUsage and getRemainingSpace - whether storage accepted,
\* refused or denied the reads and writes of the call; where the access is
\* denied or no write is accepted, the boolean is false and storage is as
\* it was.
C24_NoErrorPropagates ==
  smCall.op # "none" =>
    /\ smCall.op \in {"getUsage", "getRemainingSpace"} => smCall.ret \in Int
    /\ smCall.op \in {"isAvailable", "isNearQuota", "cleanupOldData",
                      "safeSetItem"} => smCall.ret \in BOOLEAN
    /\ smCall.op = "isAvailable" =>
         /\ ~smCall.threw
         /\ smCall.ret <=> (capacity >= 0 /\ smCall.log = <<>>)
    /\ (capacity <= 0 /\ smCall.op \in {"isAvailable", "cleanupOldData",
                                       "safeSetItem"}) =>
         ~smCall.ret /\ storage = smCall.before

\* The probe of isAvailable was refused in private browsing, and the call
\* returned false.
C24_Witness ==
  /\ smCall.op = "isAvailable"
  /\ capacity = 0
  /\ storage = <<>>
  /\ isIOS
  /\ ~smCall.ret
  /\ smCall.log = <<"warn", "showPrivateModeWarning">>

(***************************************************************************)
(* Properties of the codec as a whole (SpecExport).                        *)
(***************************************************************************)
\* C25: the codec is deterministic: a second run of convertDataToCSV over
\* the same snapshot gives the text of the first at any reading of the
\* clock, and a second run of parseCSVData over the same text gives the
\* snapshot of the first.
C25_CodecDeterministic ==
  /\ exported.status = "ok" =>
       \A now \in Clock :
         \E csv \in {convertDataToCSV(storage, now)} :
           csv.ok /\ csv.text = exported.text
  /\ roundTrip.status = "ok" =>
       \A now \in Clock :
         \E p \in {parseCSVData(exported.text, now)} :
           p.ok /\ p.data = roundTrip.data

\* The text exported from a storage differs from the text a run at the
\* other reading of the clock gives for the same storage.
C25_Witness ==
  /\ app.op = "exportData"
  /\ storage = app.before
  /\ exported.status = "ok"
  /\ \E now \in Clock :
       convertDataToCSV(storage, now).text # exported.text

\* The members of a stored mapping in traversal order (none when the key is
\* absent).
MembersOf(store, key) ==
  LET tree == StoredTree(store, key) IN
  IF tree.t = "object" THEN tree.m ELSE <<>>

\* The data type and key of the rows of a history, date by date in traversal
\* order and entry by entry in insertion order.
HistoryOrder(kind, members) ==
  Flatten([i \in 1..Len(members) |->
             [j \in 1..Len(members[i].v.a) |->
                <<<<kind>>, members[i].k \o <<"_">> \o IntToText(j - 1)>>]])

\* The data type and key of a habit row and of the rows of its history.
HabitOrder(habit, index) ==
  LET history == GetProp(habit, "history")
      dates == IF history.t = "object" THEN history.m ELSE <<>>
  IN <<<<<<"habit">>, IntToText(index)>>>>
     \o [i \in 1..Len(dates) |->
           <<<<"habit_history">>, IntToText(index) \o <<"_">> \o dates[i].k>>]

\* The data type and key of every data row of the export of store, in the
\* order C26 states.
ExpectedOrder(store) ==
  LET habits == StoredTree(store, "habits_data")
      types(key) == [i \in 1..Len(MembersOf(store, key)) |->
                       <<<<key>>, MembersOf(store, key)[i].k>>]
  IN <<<<<<"meta">>, <<"version">>>>, <<<<"meta">>, <<"exportDate">>>>,
       <<<<"water">>, <<"goal">>>>, <<<<"water">>, <<"intake">>>>>>
     \o HistoryOrder("water_history", MembersOf(store, "history_water"))
     \o <<<<<<"protein">>, <<"goal">>>>, <<<<"protein">>, <<"intake">>>>>>
     \o HistoryOrder("protein_history", MembersOf(store, "history_protein"))
     \o types("workout_state")
     \o types("workout_count")
     \o HistoryOrder("workout_history", MembersOf(store, "workout_history"))
     \o (IF habits.t = "array"
         THEN Flatten([i \in 1..Len(habits.a) |-> HabitOrder(habits.a[i], i - 1)])
         ELSE <<>>)
     \o <<<<<<"settings">>, <<"theme">>>>, <<<<"settings">>, <<"reminder">>>>>>

\* C26: the exported text begins with the header line, and its data rows
\* are, by data type and key: the meta rows; water goal and intake and the
\* water_history rows; the same for protein; the workout_state,
\* workout_count and workout_history rows; each habit row followed by the
\* rows of that habit's history, habits by index; the settings rows.
\* Histories are listed date by date in traversal order, the entries of a
\* date in insertion order under the key date_index.
C26_ExportRowOrder ==
  (exported.status = "ok" /\ ~LineBreakInName(storage)) =>
    \E lines \in {SplitLines(exported.text)}, want \in {ExpectedOrder(storage)} :
      /\ Len(lines) = Len(want) + 1
      /\ parseCSVRow(lines[1]) = [i \in 1..Len(Headers) |-> <<Headers[i]>>]
      /\ \A k \in 1..Len(want) :
           \E row \in {parseCSVRow(lines[k + 1])} :
             row[1] = want[k][1] /\ row[2] = want[k][2]

\* An export of two habits, the second with a history of two dates, of a
\* water history of two dates, the first with two entries, and of workouts.
C26_Witness ==
  /\ exported.status = "ok"
  /\ Len(MembersOf(storage, "history_water")) = 2
  /\ Len(MembersOf(storage, "workout_state")) = 2
  /\ StoredTree(storage, "habits_data").t = "array"
  /\ Len(StoredTree(storage, "habits_data").a) = 2
  /\ \E lines \in {SplitLines(exported.text)} :
       /\ Len(lines) = 22
       /\ parseCSVRow(lines[6])[2] = DateKey(2) \o <<"_", "0">>
       /\ parseCSVRow(lines[7])[2] = DateKey(2) \o <<"_", "1">>
       /\ parseCSVRow(lines[8])[2] = DateKey(1) \o <<"_", "0">>

\* C27: when a habit name of the stored snapshot holds a line break, the
\* snapshot parseCSVData reads from the exported text is not the stored
\* one: the text is split at the line break inside the quoted name, and the
\* habit comes back with the part of the name before the line break.
C27_NewlineNotReproduced ==
  (LineBreakInName(storage) /\ exported.status = "ok"
   /\ roundTrip.status # "none") =>
    /\ roundTrip.status = "ok"
    /\ ~SameSnapshot(roundTrip.data, storage)
    /\ GetProp(ParsedHabits[1], "name") = JsStr(<<"a">>)

\* The stored habit is named a, line break, b; its export was parsed.
C27_Witness ==
  /\ roundTrip.status = "ok"
  /\ StoredTree(storage, "habits_data").t = "array"
  /\ GetProp(StoredTree(storage, "habits_data").a[1], "name")
       = JsStr(<<"a", LF, "b">>)
  /\ Includes(exported.text, LF)
  /\ Len(ParsedHabits) = 1

(***************************************************************************)
(* Properties of the parser's column lookup (SpecColumns).                 *)
(***************************************************************************)
\* C28: parseCSVData returns for a file whose header columns are permuted,
\* the cells of every data row with them, what it returns for the file in
\* the column order of the format.
C28_HeaderOrderIndependent ==
  roundTrip.status # "none" =>
    \E now \in Clock :
      \E p \in {parseCSVData(exported.plain, now)} :
        /\ p.ok = (roundTrip.status = "ok")
        /\ p.ok => p.data = roundTrip.data

\* A file with its columns reversed was parsed into a workout count and a
\* water intake.
C28_Witness ==
  /\ roundTrip.status = "ok"
  /\ exported.order[1] = Len(Headers)
  /\ exported.text # exported.plain
  /\ roundTrip.data.workout.count = Json(JsObj(<<Prop("pushups", JsNum(20))>>))
  /\ roundTrip.data.water.history
       = Json(HistoryOf(<<1>>, IntakeEntry(250)))

\* The column of the numeric cell of a row, by its data type (0: none).
NumericColumn(row) ==
  CASE row[1].s \in {<<"water_history">>, <<"protein_history">>} -> 5
    [] row[1].s \in {<<"workout_count">>, <<"workout_history">>} -> 8
    [] row[1].s = <<"workout_state">> -> 12
    [] OTHER -> 0

\* The text is a number written in digits.
IsNumeral(text) ==
  text # <<>> /\ \A i \in 1..Len(text) : \E d \in 1..10 : text[i] = Digits[d]

\* The amount, count or order of the one entity that parseCSVData built from
\* the row, the only row of its data type in the file: undefined when the
\* entity has no such field.
NumericFieldOf(row) ==
  LET data == roundTrip.data
      FirstEntry(history) == history.v.m[1].v.a[1]
  IN CASE row[1].s = <<"water_history">> ->
            GetProp(FirstEntry(data.water.history), "amount")
       [] row[1].s = <<"protein_history">> ->
            GetProp(FirstEntry(data.protein.history), "amount")
       [] row[1].s = <<"workout_history">> ->
            GetProp(FirstEntry(data.workout.history), "count")
       [] row[1].s = <<"workout_count">> ->
            GetProp(data.workout.count.v, "pushups")
       [] row[1].s = <<"workout_state">> ->
            GetProp(GetProp(data.workout.state.v, "pushups"), "order")

\* The rows of the file that are the only row of their data type and whose
\* numeric cell holds no numeral.
RowsWithoutNumber ==
  {i \in 1..Len(exported.rows) :
     /\ NumericColumn(exported.rows[i]) # 0
     /\ ~IsNumeral(exported.rows[i][NumericColumn(exported.rows[i])].s)
     /\ \A j \in 1..Len(exported.rows) :
          j # i => exported.rows[j][1] # exported.rows[i][1]}

\* C29: the entity parseCSVData builds from a history, workout_count or
\* workout_state row whose amount, count or order cell is empty or not a
\* number has no such field: no zero, and no other value in its place.
C29_NoNumberNoField ==
  roundTrip.status = "ok" =>
    \A i \in RowsWithoutNumber :
      NumericFieldOf(exported.rows[i]) = JsUndefined

\* A water_history row with an empty amount was parsed into an entry whose
\* amount is null.
C29_Witness ==
  /\ roundTrip.status = "ok"
  /\ \E i \in RowsWithoutNumber :
       /\ exported.rows[i][1] = JsStr(<<"water_history">>)
       /\ exported.rows[i][5] = JsStr(<<>>)
       /\ NumericFieldOf(exported.rows[i]) = JsNull
  /\ Len(roundTrip.data.water.history.v.m[1].v.a[1].m) = 2

(***************************************************************************)
(* Properties of the interleaving of handlers (SpecImport).                *)
(***************************************************************************)
\* Storage as the i-th write of the last import left it.
AfterWriteOf(i) ==
  safeSetItem(app.writes[i].before, app.writes[i].key,
              WrittenValue(app.writes[i]), FALSE).store

\* C30: with reads completing at any time and trackers and other imports
\* running between the events, an import writes only in the handler that
\* received its file, after the read completed; its first write finds the
\* storage that handler found, every later write finds the storage the
\* write before it left, and the handler ends with the storage its last
\* write left.  The handlers that start a read or receive a read error
\* write nothing.
C30_WritesOfAnImportAreContiguous ==
  /\ app.op \in {"importData", "onerror"} => storage = app.before
  /\ app.op = "onload" =>
       IF app.writes = <<>> THEN storage = app.before
       ELSE /\ app.outcome \in {"imported", "import-failed"}
            /\ app.writes[1].before = app.before
            /\ \A i \in 2..Len(app.writes) :
                 app.writes[i].before = AfterWriteOf(i - 1)
            /\ storage = AfterWriteOf(Len(app.writes))

\* An import wrote several fields after a tracker had written and while the
\* read of another file was still pending.
C30_Witness ==
  /\ app.op = "onload"
  /\ Len(app.writes) > 2
  /\ reads # {}
  /\ imports = 2
  /\ GetItem(app.before, "intake_water") = Txt(<<"9", "0", "0">>)
  /\ storage # app.before

(***************************************************************************)
(* Properties of the export's effect on storage (SpecExport).              *)
(***************************************************************************)
\* C33: after exportData, whether it produced a file or showed an error,
\* storage holds the keys it held before, each with the value it had.
C33_ExportLeavesStorage ==
  app.op = "exportData" =>
    /\ exported.status \in {"ok", "error"}
    /\ DOMAIN storage = DOMAIN app.before
    /\ \A key \in DOMAIN storage : storage[key] = app.before[key]

\* An export failed on a protein history that is no JSON text, and the
\* storage is as it was, the unparsable value included.
C33_Witness ==
  /\ app.op = "exportData"
  /\ exported.status = "error"
  /\ GetItem(storage, "history_protein") = Corrupt
  /\ GetItem(storage, "habits_data") # NoItem
  /\ storage = app.before

(***************************************************************************)
(* Properties of a restore (SpecRestore).                                  *)
(***************************************************************************)
PersistedKeys ==
  {"goal_water", "intake_water", "history_water", "goal_protein",
   "intake_protein", "history_protein", "workout_state", "workout_count",
   "workout_history", "habits_data", "app_theme", "global_reminder"}

\* The stored value item stands for the value of the source: the same text
\* or the same tree, and for a key the source lacks no value, the empty text
\* or the empty mapping or sequence.
RestoredAs(item, of) ==
  IF of = NoItem
  THEN item \in {NoItem, Txt(<<>>), Json(JsObj(<<>>)), Json(JsArr(<<>>))}
  ELSE /\ item # NoItem
       /\ \/ ItemText(item) = ItemText(of)
          \/ item.k = "json" /\ of.k = "json" /\ item.v = of.v

\* No write of the import met the quota.
EveryWriteSucceeded ==
  /\ app.op = "onload"
  /\ app.outcome = "imported"
  /\ \A i \in 1..Len(app.writes) : app.writes[i].log = <<"setItem:ok">>

\* C31: after the export of a storage was imported into another one with
\* every write succeeding, each of the twelve persisted keys holds a value
\* equivalent to the one the exported storage held, the keys that storage
\* lacked included.
C31_RestoreReproducesSource ==
  EveryWriteSucceeded =>
    \A key \in PersistedKeys :
      RestoredAs(GetItem(storage, key), GetItem(app.file.source, key))

\* The export of a storage that holds habits and a water history alone was
\* imported over the full storage: every write succeeded, the two keys of
\* the file hold its values, and the water goal, the theme and the reminder
\* are still the ones the device held.
C31_Witness ==
  /\ EveryWriteSucceeded
  /\ DOMAIN app.file.source = {"habits_data", "history_water"}
  /\ RestoredAs(GetItem(storage, "habits_data"),
                GetItem(app.file.source, "habits_data"))
  /\ RestoredAs(GetItem(storage, "history_water"),
                GetItem(app.file.source, "history_water"))
  /\ \A key \in {"goal_water", "app_theme", "global_reminder"} :
       /\ GetItem(app.before, key) # NoItem
       /\ GetItem(storage, key) = GetItem(app.before, key)
       /\ \A i \in 1..Len(app.writes) : app.writes[i].key # key

\* C32: when performDataImport returned true, history_water,
\* history_protein, workout_history and habits_data each hold the text the
\* import wrote for them: no cleanupOldData run of a later write of the same
\* import altered a key imported earlier.
C32_ImportedHistoriesKept ==
  (app.op = "onload" /\ app.outcome = "imported") =>
    \A i \in 1..Len(app.writes) :
      app.writes[i].key \in {"history_water", "history_protein",
                             "workout_history", "habits_data"}
        => GetItem(storage, app.writes[i].key) = WrittenValue(app.writes[i])

\* On the constrained tier an import returned true whose write of a water
\* history of 31 dates succeeded at once and whose later write of the
\* protein goal met the quota, ran cleanupOldData and succeeded when
\* retried: history_water holds 30 dates, the earliest imported date gone.
C32_Witness ==
  /\ app.op = "onload" /\ app.outcome = "imported" /\ isIOS
  /\ \E i, j \in 1..Len(app.writes) :
       /\ i < j
       /\ app.writes[i].key = "history_water"
       /\ app.writes[i].log = <<"setItem:ok">>
       /\ Len(WrittenValue(app.writes[i]).v.m) = 31
       /\ app.writes[j].key = "goal_protein"
       /\ app.writes[j].ret
       /\ app.writes[j].log[1] = "setItem:quota"
       /\ app.writes[j].log[2] = "cleanup:true"
  /\ Len(StoredTree(storage, "history_water").m) = 30
  /\ DateKey(1) \notin DateKeysOf(StoredTree(storage, "history_water"))

(***************************************************************************)
(* Properties of the service worker (SpecWorker).                          *)
(***************************************************************************)
\* C34: after the activate handler completed, every cache it found whose
\* name is none of the three current names is deleted, and every current
\* cache it found still exists, whatever caches existed.
C34_ActivateDeletesStaleCaches ==
  sw.phase = "active" =>
    /\ \A name \in sw.found \ {CACHE_NAME, RUNTIME_CACHE, FONTS_CACHE} :
         name \notin DOMAIN sw.caches
    /\ \A name \in sw.found \cap {CACHE_NAME, RUNTIME_CACHE, FONTS_CACHE} :
         name \in DOMAIN sw.caches

\* The activation ended with the three current caches kept and two caches
\* of an earlier version deleted, no request handled yet.
C34_Witness ==
  /\ sw.phase = "active"
  /\ sw.pc = "idle"
  /\ sw.found = {CACHE_NAME, RUNTIME_CACHE, FONTS_CACHE,
                 "daily-tracker-v2-ios", "daily-tracker-runtime-v2"}
  /\ DOMAIN sw.caches = {CACHE_NAME, RUNTIME_CACHE, FONTS_CACHE}
  /\ sw.caches[CACHE_NAME] = {"./index.html"}

\* The answer to a same-origin GET request, by the state of the caches when
\* the handler ran (sw.at) and what the network gave (sw.net).
SameOriginAnswered ==
  (sw.phase = "active" /\ sw.pc = "answered" /\ sw.request.sameOrigin) =>
    /\ sw.method = "GET"
    /\ sw.response.kind # "error"
    /\ IF sw.request.destination = "document"
       THEN CASE sw.net = "ok" ->
                   /\ sw.response.kind = "network"
                   /\ sw.response.status = 200
                   /\ sw.response.of = sw.request.url
              [] sw.net # "ok" /\ Match(sw.at, sw.request.url) ->
                   sw.response = CachedResponse(sw.request.url)
              [] /\ sw.net # "ok"
                 /\ ~Match(sw.at, sw.request.url)
                 /\ Match(sw.at, "./index.html") ->
                   sw.response = CachedResponse("./index.html")
              [] OTHER ->
                   sw.response.kind = "made" /\ sw.response.status = 503
       ELSE CASE Match(sw.at, sw.request.url) ->
                   /\ sw.response = CachedResponse(sw.request.url)
                   /\ sw.caches = sw.at
              [] ~Match(sw.at, sw.request.url) /\ sw.net # "failed" ->
                   /\ sw.response.kind = "network"
                   /\ sw.response.of = sw.request.url
                   /\ (sw.response.status = 200) <=> (sw.net = "ok")
                   /\ Match(sw.caches, sw.request.url) => sw.net = "ok"
              [] OTHER ->
                   /\ sw.response.kind = "made" /\ sw.response.status = 503
                   /\ sw.caches = sw.at

\* A request that is no GET is never answered by the worker.
OnlyGetAnswered ==
  (sw.phase = "active" /\ sw.pc # "idle") =>
    (sw.method # "GET" <=> sw.pc = "passed")

\* C35: every intercepted same-origin GET request is eventually answered
\* with a response, never with a rejection: a document with the ok network
\* response, else the cached response, else the cached index.html, else a
\* 503; another asset with the cached response, else the network response,
\* cached only when ok, else a 503; and a request that is no GET is never
\* answered by the worker.
C35_SameOriginGetIsAnswered ==
  /\ [](SameOriginAnswered /\ OnlyGetAnswered)
  /\ (sw.phase = "active" /\ sw.pc = "pending" /\ sw.request.sameOrigin)
       ~> (/\ sw.phase = "active"
           /\ sw.pc = "answered"
           /\ sw.request.sameOrigin
           /\ sw.response.kind # "error")

\* The address of the application was requested while the network was down
\* and no cache held it: the answer is the cached start page.
C35_Witness ==
  /\ sw.phase = "active"
  /\ sw.pc = "answered"
  /\ sw.method = "GET"
  /\ sw.request.sameOrigin
  /\ sw.request.url = "./"
  /\ sw.request.destination = "document"
  /\ sw.net = "failed"
  /\ ~Match(sw.at, "./")
  /\ sw.response = CachedResponse("./index.html")
=============================================================================
